---------------------------- MODULE Spec2Model ----------------------------
(***************************************************************************)
(* A model of the gophkeeper server: the refresh-token service             *)
(* (internal/service/token_service.go over the refresh_tokens table), the  *)
(* SCRAM registration / login completion (service Auth over the pending    *)
(* session tables) and the record service (records table + blob store).    *)
(*                                                                         *)
(* Every store call (one SQL statement, one blob-store request) is one     *)
(* atomic step; a request is a process that moves through its store calls  *)
(* and may be interleaved with other requests between any two of them.     *)
(* Time is a wall clock counted in ticks.                                  *)
(***************************************************************************)
EXTENDS Integers, Sequences, FiniteSets, TLC

\* ------------------------------------------------------------------ bounds
NumProcs == 2
NumUsers == 2
MaxJTI == 3
MaxTime == 3
MaxSessions == 2
NumLogins == 2
MaxRecords == 1
NumRequestIDs == 1
NumNames == 2
MaxKeys == 1
MaxChunks == 2
MaxChunkLen == 1
MaxChunkSize == 2
TicksPerSecond == 2
NumRows == 2

\* ------------------------------------------------- constants of the program
\* refreshTTL: the lifetime of a refresh token (30 days) is one clock tick.
RefreshTTL == 1

\* accessTTL: the lifetime of an access token (15 minutes) is one clock tick.
AccessTTL == 1

\* model.PendingSessionDuration (10 minutes) is one clock tick.
PendingSessionDuration == 1

Procs == 1..NumProcs
UserIDs == 1..NumUsers
JTIs == 1..MaxJTI
SessionIDs == 1..MaxSessions
Logins == 1..NumLogins
Keys == Logins
RecordIDs == 1..MaxRecords
RequestIDs == 1..NumRequestIDs
Names == 1..NumNames
BlobKeys == 1..MaxKeys

\* The nil pointer / SQL NULL / uuid.Nil.
Nil == 0

VARIABLES
    now,            \* the wall clock (time.Now(), NOW())
    users,          \* table users: set of rows
    refreshTokens,  \* table refresh_tokens: jti -> row
    nextJTI,        \* source of fresh uuid.NewString() values for jti
    clientTokens,   \* refresh tokens that were returned to a client
    rf,             \* the Refresh requests in flight: proc -> local state
    refreshed,      \* history: <<presented, returned>> of every successful Refresh
    presented,      \* history of the sequential client: tokens it has sent to Refresh
    revokedByToken, \* history: jtis for which RevokeByToken returned nil
    revokedByUser,  \* history: jtis whose row existed when a RevokeAllForUser of
                    \* their user returned nil
    pendingSignups, \* table pending_signups: session id -> row
    pendingLogins,  \* table pending_logins: session id -> row
    nextSID,        \* source of fresh session ids
    nextUserID,     \* source of fresh uuid.New() values for users.id
    au,             \* the CompleteReg / CompleteLogin requests in flight
    createdFrom,    \* history: <<session id, user id>> of every user inserted
    issuedFor,      \* history: <<session id, jti>> of every pair CompleteLogin issued
    records,        \* table records: id -> row
    nextRecordID,   \* source of fresh uuid.New() values for records.id
    blobs,          \* the blob store: the keys that hold an object
    nextKey,        \* source of fresh blob keys (generateS3Key)
    deleteLog,      \* history: the keys for which storage.Delete was issued
    rc,             \* the CreateRecord / CreateRecordStream requests in flight
    got,            \* the last GetRecord request and the answer on the wire
    st,             \* the streams of the requests in flight: proc -> frames read,
                    \* bytes piped to the upload, frames sent to the client
    objects,        \* the blob store: key -> the bytes of the object
    rq,             \* the last request that came to the interceptors, and what
                    \* they did with it
    sync            \* a client that keeps a copy of its records: its watermark
                    \* and the record ids and tombstone ids it has received

tokenVars == <<refreshTokens, nextJTI, clientTokens, rf, refreshed, presented,
               revokedByToken, revokedByUser>>

authVars == <<pendingSignups, pendingLogins, nextSID, nextUserID, au, createdFrom,
              issuedFor>>

recVars == <<records, nextRecordID, blobs, nextKey, deleteLog, rc, got>>

streamVars == <<st, objects>>

vars == <<now, users, tokenVars, authVars, recVars, streamVars, rq, sync>>

\* ----------------------------------------------------------- token manager
NoToken == [typ |-> "none", userID |-> Nil, jti |-> Nil, exp |-> 0, raw |-> 0]

\* JWT.GenerateRefreshToken: claims {jti, user_id, typ=refresh, exp=now+refreshTTL}.
\* raw = 0 is the string the server signed.
GenerateRefreshToken(userID, jti, t) ==
    [typ |-> "refresh", userID |-> userID, jti |-> jti, exp |-> t + RefreshTTL, raw |-> 0]

\* Another validly signed string that carries the same claims (same jti) but
\* different bytes: what a holder of the signing secret can present.
Resigned(tok) == [tok EXCEPT !.raw = 1]

\* JWT.ParseRefreshToken: the library rejects a token unless now < exp
\* (leeway 0); then the type discriminator is checked.
ParseRefreshToken(tok, t) ==
    IF ~(t < tok.exp) THEN [err |-> "InvalidToken", userID |-> Nil, jti |-> Nil]
    ELSE IF tok.typ # "refresh" THEN [err |-> "InvalidToken", userID |-> Nil, jti |-> Nil]
    ELSE [err |-> "nil", userID |-> tok.userID, jti |-> tok.jti]

\* hashRefresh: SHA-256 of the token string (injective on the strings modelled).
hashRefresh(tok) == <<"sha256", tok.jti, tok.userID, tok.exp, tok.raw>>

\* JWT.GenerateAccessToken: claims {user_id, typ=access, exp=now+accessTTL};
\* an access token has no jti.
GenerateAccessToken(userID, t) ==
    [typ |-> "access", userID |-> userID, jti |-> Nil, exp |-> t + AccessTTL, raw |-> 0]

\* A variant of ParseAccessToken that does not look at the type discriminator.
ParseAccessTokenAnyType(tok, t) ==
    IF tok.typ \notin {"access", "refresh"} THEN [err |-> "InvalidToken", userID |-> Nil]
    ELSE IF ~(t < tok.exp) THEN [err |-> "InvalidToken", userID |-> Nil]
    ELSE [err |-> "nil", userID |-> tok.userID]

\* JWT.ParseAccessToken: the library rejects a string that is not a token the
\* server signed, and a token unless now < exp; then the type discriminator
\* is checked.
ParseAccessToken(tok, t) ==
    IF tok.typ \notin {"access", "refresh"} THEN [err |-> "InvalidToken", userID |-> Nil]
    ELSE IF ~(t < tok.exp) THEN [err |-> "InvalidToken", userID |-> Nil]
    ELSE IF tok.typ # "access" THEN [err |-> "InvalidToken", userID |-> Nil]
    ELSE [err |-> "nil", userID |-> tok.userID]

\* -------------------------------------------------- router and middleware
\* The empty string, as a token string.
EmptyString == [typ |-> "empty", userID |-> Nil, jti |-> Nil, exp |-> 0, raw |-> 0]

\* The "authorization" metadata of a request: absent, or a value that is
\* "Bearer " + token, or the token alone.
NoHeader == [present |-> FALSE, bearer |-> FALSE, token |-> EmptyString]
Header(bearer, tok) == [present |-> TRUE, bearer |-> bearer, token |-> tok]

\* strings.TrimPrefix(value, "Bearer "): the rest of the value, and the whole
\* value when it does not start with the prefix.
TrimPrefix(header) == header.token

\* The services registered on the server and their methods.
AuthService == "api.Auth"
APIService == "api.API"
AuthMethods == {"GetRegParams", "CompleteReg", "GetLoginParams", "CompleteLogin",
                "RefreshToken", "RevokeToken"}
APIMethods == {"ListRecords", "CreateRecord", "CreateRecordStream", "GetRecord",
               "GetRecordStream", "DeleteRecord"}
Routes == {<<AuthService, m>> : m \in AuthMethods} \cup {<<APIService, m>> : m \in APIMethods}

\* FullMethod: "/" + service + "/" + method, kept as <<service, method>>.
FullMethod(route) == route

\* A selector that puts every call through the authentication interceptor.
authSkipNever(fullMethod) == TRUE

\* authSkip, the selector's matcher: the authentication interceptor is applied
\* to a call exactly when this is TRUE, i.e. when the full method does not
\* start with "/api.Auth/".
authSkip(fullMethod) == ~(fullMethod[1] = AuthService)

\* TokenService.GetUserID: ParseAccessToken.
GetUserID(tok, t) == ParseAccessToken(tok, t)

\* Authenticate.authenticateUser.
authenticateUser(tokenString, t) ==
    IF tokenString = EmptyString
    THEN [err |-> "MissingAuthorizationToken", userID |-> Nil]
    ELSE LET r == GetUserID(tokenString, t) IN
         IF r.err # "nil" THEN [err |-> "InvalidAuthorizationToken", userID |-> Nil]
         ELSE IF r.userID = Nil THEN [err |-> "InvalidAuthorizationToken", userID |-> Nil]
         ELSE [err |-> "nil", userID |-> r.userID]

\* Authenticate.AuthFunc: the first "authorization" value without its "Bearer "
\* prefix; every failure is status Unauthenticated, success puts the user id
\* into the context.
AuthFunc(header, t) ==
    LET tokenString == IF header.present THEN TrimPrefix(header) ELSE EmptyString
        r == authenticateUser(tokenString, t)
    IN IF r.err # "nil"
       THEN [code |-> "Unauthenticated", message |-> r.err, userID |-> Nil]
       ELSE [code |-> "OK", message |-> "", userID |-> r.userID]

\* uuid.UUID.String and uuid.Parse: the text of an id, and the id of a text
\* that has the form of one.
String(id) == <<"uuid", id>>
Parse(text) == IF text[1] = "uuid" THEN [err |-> "nil", id |-> text[2]]
               ELSE [err |-> "invalid UUID", id |-> Nil]

\* A context manager that adds the user id after the values that the
\* metadata already has under "user_id" (metadata.MD.Append).
SetUserIDToContextAppend(md, userID) == Append(md, String(userID))

\* Manager.SetUserIDToContext: md.Set("user_id", userID.String()) on the
\* incoming metadata, which replaces the values of the key; md is the list of
\* values under "user_id".
SetUserIDToContext(md, userID) == <<String(userID)>>

\* Manager.GetUserIDFromContext: the first value under "user_id", parsed.
GetUserIDFromContext(md) ==
    IF Len(md) = 0 THEN [ok |-> FALSE, userID |-> Nil]
    ELSE LET r == Parse(md[1]) IN
         IF r.err # "nil" THEN [ok |-> FALSE, userID |-> Nil]
         ELSE [ok |-> TRUE, userID |-> r.id]

\* handler Record.extractUserIDFromContext.
extractUserIDFromContext(md) ==
    LET r == GetUserIDFromContext(md) IN
    IF ~r.ok THEN [err |-> "MissingAuthorizationToken", userID |-> Nil]
    ELSE [err |-> "nil", userID |-> r.userID]

\* The routes whose calls the selector passes on without authentication.
OpenRoutes == {route \in Routes : ~authSkip(FullMethod(route))}

\* No request has come yet.
IdleRequest == [route |-> <<"", "">>, header |-> NoHeader, at |-> Nil, code |-> "",
                message |-> "", userID |-> Nil, handled |-> FALSE,
                supplied |-> <<>>, acting |-> [err |-> "", userID |-> Nil]]

\* A call goes through the interceptor chain of Router.Register: the selector
\* applies the authentication interceptor or passes the call on; the handler
\* is invoked unless the interceptor returned an error, and a record handler
\* takes the user it acts for from the context.  supplied is the list of
\* "user_id" metadata values that the client sent.
Intercept(route, header, supplied) ==
    /\ LET selected == authSkip(FullMethod(route))
           r == IF selected THEN AuthFunc(header, now)
                ELSE [code |-> "OK", message |-> "", userID |-> Nil]
           md == IF selected /\ r.code = "OK" THEN SetUserIDToContext(supplied, r.userID)
                 ELSE supplied
           acting == IF r.code = "OK" /\ route[1] = APIService
                     THEN extractUserIDFromContext(md)
                     ELSE [err |-> "", userID |-> Nil]
       IN rq' = [route |-> route, header |-> header, at |-> now, code |-> r.code,
                 message |-> r.message, userID |-> r.userID, handled |-> r.code = "OK",
                 supplied |-> supplied, acting |-> acting]
    /\ UNCHANGED <<sync, now, users, tokenVars, authVars, recVars, streamVars>>

\* ------------------------------------------------- refresh_tokens repository
\* RefreshTokenRepository.Create: INSERT (jti is UNIQUE).
RefreshTokenCreate(tbl, row) ==
    [j \in DOMAIN tbl \cup {row.jti} |-> IF j = row.jti THEN row ELSE tbl[j]]

\* Variants of RevokeByJTI: an UPDATE whose WHERE clause matches no row, and
\* one without the revoked_at IS NULL condition.
RevokeByJTINoRow(tbl, jti, t) == tbl

RevokeByJTIOverwrite(tbl, jti, t) ==
    [j \in DOMAIN tbl |-> IF j = jti THEN [tbl[j] EXCEPT !.revokedAt = t] ELSE tbl[j]]

\* RefreshTokenRepository.RevokeByJTI:
\* UPDATE ... SET revoked_at = NOW() WHERE jti = $1 AND revoked_at IS NULL.
\* The number of affected rows is discarded.
RevokeByJTI(tbl, jti, t) ==
    [j \in DOMAIN tbl |->
        IF j = jti /\ tbl[j].revokedAt = Nil THEN [tbl[j] EXCEPT !.revokedAt = t]
        ELSE tbl[j]]

\* RefreshTokenRepository.RevokeAllByUser:
\* UPDATE ... SET revoked_at = NOW() WHERE user_id = $1 AND revoked_at IS NULL.
RevokeAllByUser(tbl, userID, t) ==
    [j \in DOMAIN tbl |->
        IF tbl[j].userID = userID /\ tbl[j].revokedAt = Nil
        THEN [tbl[j] EXCEPT !.revokedAt = t]
        ELSE tbl[j]]

\* ------------------------------------------------------------ token service
\* A variant of validateRecord that looks at the expiry first.
validateRecordExpiryFirst(rt, presentedHash, t) ==
    IF t > rt.expiresAt THEN "TokenExpired"
    ELSE IF rt.revokedAt # Nil THEN "TokenRevoked"
    ELSE IF rt.tokenHash # presentedHash THEN "TokenMismatch"
    ELSE "nil"

\* validateRecord: revoked, then expired, then hash mismatch.
validateRecord(rt, presentedHash, t) ==
    IF rt.revokedAt # Nil THEN "TokenRevoked"
    ELSE IF t > rt.expiresAt THEN "TokenExpired"
    ELSE IF rt.tokenHash # presentedHash THEN "TokenMismatch"
    ELSE "nil"

\* The row TokenService.Issue / Refresh builds for a new refresh token
\* (ExpiresAt = now + refreshTTL, RevokedAt = nil).
NewRefreshRow(tok, t, rotatedFrom) ==
    [jti |-> tok.jti, userID |-> tok.userID, tokenHash |-> hashRefresh(tok),
     expiresAt |-> t + RefreshTTL, revokedAt |-> Nil, rotatedFromJTI |-> rotatedFrom]

\* Local state of a Refresh call.  afterRotate / afterRevoke / first record
\* what had happened to the presented token when the call began.
IdleRefresh == [pc |-> "idle", tok |-> NoToken, res |-> "none", out |-> NoToken,
                afterRotate |-> FALSE, afterRevoke |-> FALSE, first |-> FALSE]

\* What a client can send as a refresh token: a token it was given, or (for a
\* holder of the signing secret) a re-signed one.
Presentable == clientTokens
PresentableOrResigned == clientTokens \cup {Resigned(t) : t \in clientTokens}

\* TokenService.Issue(userID): generate the pair and INSERT the row, then
\* return the pair.  (A failed INSERT returns an error and leaves no trace.)
Issue(userID) ==
    /\ nextJTI <= MaxJTI
    /\ LET refresh == GenerateRefreshToken(userID, nextJTI, now) IN
       /\ nextJTI' = nextJTI + 1
       /\ refreshTokens' = RefreshTokenCreate(refreshTokens, NewRefreshRow(refresh, now, Nil))
       /\ clientTokens' = clientTokens \cup {refresh}

\* TokenService.Refresh, line 67: ParseRefreshToken.
RefreshBegin(p, tok, sequential) ==
    /\ rf[p].pc = "idle"
    /\ sequential => \A q \in Procs : rf[q].pc = "idle"
    /\ LET parsed == ParseRefreshToken(tok, now)
           started == [IdleRefresh EXCEPT
                         !.tok = tok,
                         !.afterRotate = \E r \in refreshed : r[1] = tok,
                         !.afterRevoke = tok.jti \in revokedByToken \cup revokedByUser,
                         !.first = sequential /\ tok \notin presented]
       IN rf' = [rf EXCEPT ![p] =
                    IF parsed.err # "nil"
                    THEN [started EXCEPT !.pc = "done", !.res = parsed.err]
                    ELSE [started EXCEPT !.pc = "get"]]
    /\ presented' = IF sequential THEN presented \cup {tok} ELSE presented
    /\ UNCHANGED <<rq, sync, recVars, streamVars, now, users, authVars, refreshTokens, nextJTI, clientTokens, refreshed,
                   revokedByToken, revokedByUser>>

\* TokenService.Refresh, lines 72-80: store.GetByJTI, then
\* validateRecord(rt, hashRefresh(presented), time.Now()).
RefreshGetByJTI(p) ==
    /\ rf[p].pc = "get"
    /\ LET jti == rf[p].tok.jti
           err == IF jti \notin DOMAIN refreshTokens THEN "NotFound"
                  ELSE validateRecord(refreshTokens[jti], hashRefresh(rf[p].tok), now)
       IN rf' = [rf EXCEPT ![p] =
                    IF err # "nil" THEN [@ EXCEPT !.pc = "done", !.res = err]
                    ELSE [@ EXCEPT !.pc = "revoke"]]
    /\ UNCHANGED <<rq, sync, recVars, streamVars, now, users, authVars, refreshTokens, nextJTI, clientTokens, refreshed,
                   presented, revokedByToken, revokedByUser>>

\* TokenService.Refresh, line 83: store.RevokeByJTI(jti); only an SQL error
\* would make the call fail here.
RefreshRevoke(p) ==
    /\ rf[p].pc = "revoke"
    /\ refreshTokens' = RevokeByJTI(refreshTokens, rf[p].tok.jti, now)
    /\ rf' = [rf EXCEPT ![p].pc = "create"]
    /\ UNCHANGED <<rq, sync, recVars, streamVars, now, users, authVars, nextJTI, clientTokens, refreshed, presented,
                   revokedByToken, revokedByUser>>

\* TokenService.Refresh, lines 87-115: generate the new pair, INSERT the new
\* row with rotated_from_jti = rt.JTI; a failed INSERT fails the call.
RefreshCreate(p, ok) ==
    /\ rf[p].pc = "create"
    /\ IF ok
       THEN /\ nextJTI <= MaxJTI
            /\ LET refresh == GenerateRefreshToken(rf[p].tok.userID, nextJTI, now) IN
               /\ nextJTI' = nextJTI + 1
               /\ refreshTokens' = RefreshTokenCreate(refreshTokens,
                                       NewRefreshRow(refresh, now, rf[p].tok.jti))
               /\ rf' = [rf EXCEPT ![p].pc = "done", ![p].res = "ok", ![p].out = refresh]
       ELSE /\ UNCHANGED <<nextJTI, refreshTokens>>
            /\ rf' = [rf EXCEPT ![p].pc = "done", ![p].res = "Backend"]
    /\ UNCHANGED <<rq, sync, recVars, streamVars, now, users, authVars, clientTokens, refreshed, presented,
                   revokedByToken, revokedByUser>>

\* The call returns to the client: a successful call hands out the new pair.
RefreshReturn(p) ==
    /\ rf[p].pc = "done"
    /\ rf' = [rf EXCEPT ![p] = IdleRefresh]
    /\ IF rf[p].res = "ok"
       THEN /\ clientTokens' = clientTokens \cup {rf[p].out}
            /\ refreshed' = refreshed \cup {<<rf[p].tok, rf[p].out>>}
       ELSE UNCHANGED <<clientTokens, refreshed>>
    /\ UNCHANGED <<rq, sync, recVars, streamVars, now, users, authVars, refreshTokens, nextJTI, presented,
                   revokedByToken, revokedByUser>>

\* TokenService.RevokeByToken: parse, then store.RevokeByJTI.
RevokeByToken(tok) ==
    /\ LET parsed == ParseRefreshToken(tok, now) IN
       /\ parsed.err = "nil"
       /\ refreshTokens' = RevokeByJTI(refreshTokens, parsed.jti, now)
       /\ revokedByToken' = revokedByToken \cup {parsed.jti}
    /\ UNCHANGED <<rq, sync, recVars, streamVars, now, users, authVars, nextJTI, clientTokens, rf, refreshed, presented,
                   revokedByUser>>

RevokeByTokenCall == \E tok \in Presentable : RevokeByToken(tok)

\* TokenService.RevokeAllForUser: store.RevokeAllByUser.
RevokeAllForUser(userID) ==
    /\ refreshTokens' = RevokeAllByUser(refreshTokens, userID, now)
    /\ revokedByUser' = revokedByUser \cup
                          {j \in DOMAIN refreshTokens : refreshTokens[j].userID = userID}
    /\ UNCHANGED <<rq, sync, recVars, streamVars, now, users, authVars, nextJTI, clientTokens, rf, refreshed, presented,
                   revokedByToken>>

RevokeAllForUserCall == \E u \in UserIDs : RevokeAllForUser(u)

\* The wall clock advances.
Tick ==
    /\ now < MaxTime
    /\ now' = now + 1
    /\ UNCHANGED <<rq, sync, users, tokenVars, authVars, recVars, streamVars>>

\* ------------------------------------------------------------ auth service
\* Go error values: nil, the sentinel model.ErrNotFound, an error wrapped with
\* fmt.Errorf("...: %w", err), an *apiErrors.APIError with its wire code.
NoErr == [kind |-> "nil", code |-> "", message |-> ""]

ErrNotFound == [kind |-> "sentinel", code |-> "", message |-> "not found"]

ErrBackend == [kind |-> "backend", code |-> "", message |-> "backend"]

Wrapped(message, err) == [kind |-> "wrapped", code |-> "", message |-> message]

\* handler Auth.handleError: the error itself must be an *apiErrors.APIError
\* (a type assertion, which does not look through fmt.Errorf); any other error
\* becomes NewErrInternalServerError.
authHandleError(err) ==
    IF err.kind = "api" THEN [code |-> err.code, message |-> err.message]
    ELSE [code |-> "Internal", message |-> "internal server error"]

\* The answer of handler Auth.CompleteLogin to what the service returned.
CompleteLoginWire(err) == IF err.kind = "nil" THEN "OK" ELSE authHandleError(err).code
\* The client derives storedKey = SHA-256(clientKey) and sends it at
\* registration; at login it sends a proof computed from its clientKey and the
\* auth message of the session.
StoredKeyOf(clientKey) == <<"sha256", clientKey>>

AuthMessage(login, sid) == <<login, sid>>

ClientProof(clientKey, authMessage) == <<"proof", clientKey, authMessage>>

\* clientKey = clientProof XOR HMAC(storedKey, authMessage): the client's key
\* when the proof was made for this auth message, garbage otherwise.
RecoverClientKey(proof, authMessage) == IF proof[3] = authMessage THEN proof[2] ELSE Nil

\* scram.VerifyRegistration(pending, complete): the session id matches, the
\* session is not consumed and not expired, the keys are present.
VerifyRegistration(pending, params, t) ==
    IF pending.sessionID # params.sessionID THEN "SessionMismatch"
    ELSE IF pending.consumed THEN "SessionConsumed"
    ELSE IF t > pending.expiresAt THEN "SessionExpired"
    ELSE IF params.storedKey = <<>> THEN "InvalidKeys"
    ELSE "nil"

\* The error value of a failed check of the protocol engine.
EngineError(name) == [kind |-> "engine", code |-> "", message |-> name]

\* The checks of the protocol engine that can fail at CompleteLogin.
EngineFailures == {"SessionMismatch", "SessionConsumed", "SessionExpired", "InvalidProof"}

\* scram.VerifyLogin(storedKey, pending, complete): the pending session is
\* validated as at registration, then the proof against the stored key.
VerifyLogin(storedKey, pending, params, t) ==
    IF pending.sessionID # params.sessionID THEN "SessionMismatch"
    ELSE IF pending.consumed THEN "SessionConsumed"
    ELSE IF t > pending.expiresAt THEN "SessionExpired"
    ELSE IF StoredKeyOf(RecoverClientKey(params.proof, AuthMessage(params.login, pending.sessionID)))
            # storedKey THEN "InvalidProof"
    ELSE "nil"

\* UserRepository.GetByEmail: the row, or ErrNotFound (the zero User).
NoUser == [id |-> Nil, email |-> Nil, storedKey |-> <<>>]

GetByEmail(tbl, email) ==
    IF \E u \in tbl : u.email = email
    THEN CHOOSE u \in tbl : u.email = email
    ELSE NoUser

\* SignupRepository.Create / LoginRepository.Create: INSERT of a pending row.
PendingCreate(tbl, row) ==
    [s \in DOMAIN tbl \cup {row.sessionID} |-> IF s = row.sessionID THEN row ELSE tbl[s]]

\* SignupRepository.Consume / LoginRepository.Consume:
\* UPDATE pending_* SET consumed = TRUE WHERE session_id = $1.
Consume(tbl, sid) ==
    [s \in DOMAIN tbl |-> IF s = sid THEN [tbl[s] EXCEPT !.consumed = TRUE] ELSE tbl[s]]

\* Local state of a CompleteReg / CompleteLogin call; lost records that the
\* call's INSERT of the user met a row with the same email.
IdleAuth == [op |-> "none", pc |-> "idle", sid |-> Nil, login |-> Nil, key |-> Nil,
             user |-> NoUser, res |-> "none", lost |-> FALSE, wire |-> ""]

\* Auth.GetRegParams(login): the login is free, a pending signup is stored.
GetRegParams(login) ==
    /\ nextSID <= MaxSessions
    /\ GetByEmail(users, login) = NoUser
    /\ pendingSignups' = PendingCreate(pendingSignups,
            [sessionID |-> nextSID, login |-> login,
             expiresAt |-> now + PendingSessionDuration, consumed |-> FALSE])
    /\ nextSID' = nextSID + 1
    /\ UNCHANGED <<rq, sync, recVars, streamVars, now, users, tokenVars, pendingLogins, nextUserID, au, createdFrom, issuedFor>>

\* Auth.GetLoginParams(login): the user exists, a pending login is stored.
GetLoginParams(login) ==
    /\ nextSID <= MaxSessions
    /\ GetByEmail(users, login) # NoUser
    /\ pendingLogins' = PendingCreate(pendingLogins,
            [sessionID |-> nextSID, login |-> login,
             expiresAt |-> now + PendingSessionDuration, consumed |-> FALSE])
    /\ nextSID' = nextSID + 1
    /\ UNCHANGED <<rq, sync, recVars, streamVars, now, users, tokenVars, pendingSignups, nextUserID, au, createdFrom, issuedFor>>

\* Auth.CompleteReg, one step per store call.  The request is received.
RegBegin(p, sid, login, key) ==
    /\ au[p].pc = "idle"
    /\ au' = [au EXCEPT ![p] = [IdleAuth EXCEPT !.op = "reg", !.pc = "getSession",
                                   !.sid = sid, !.login = login, !.key = key]]
    /\ UNCHANGED <<rq, sync, recVars, streamVars, now, users, tokenVars, pendingSignups, pendingLogins, nextSID,
                   nextUserID, createdFrom, issuedFor>>

\* A CompleteReg that reads the pending signup and does not verify it.
RegGetBySessionIDUnverified(p) ==
    /\ au[p].op = "reg" /\ au[p].pc = "getSession"
    /\ au' = [au EXCEPT ![p] = IF au[p].sid \notin DOMAIN pendingSignups
                                THEN [@ EXCEPT !.pc = "done", !.res = "NotFound"]
                                ELSE [@ EXCEPT !.pc = "getUser"]]
    /\ UNCHANGED <<rq, sync, recVars, streamVars, now, users, tokenVars, pendingSignups, pendingLogins, nextSID,
                   nextUserID, createdFrom, issuedFor>>

\* signupStore.GetBySessionID, then protocol.VerifyRegistration on the row read.
RegGetBySessionID(p) ==
    /\ au[p].op = "reg" /\ au[p].pc = "getSession"
    /\ LET err == IF au[p].sid \notin DOMAIN pendingSignups THEN "NotFound"
                  ELSE VerifyRegistration(pendingSignups[au[p].sid],
                           [sessionID |-> au[p].sid, login |-> au[p].login,
                            storedKey |-> StoredKeyOf(au[p].key)], now)
       IN au' = [au EXCEPT ![p] = IF err # "nil"
                                   THEN [@ EXCEPT !.pc = "done", !.res = err]
                                   ELSE [@ EXCEPT !.pc = "getUser"]]
    /\ UNCHANGED <<rq, sync, recVars, streamVars, now, users, tokenVars, pendingSignups, pendingLogins, nextSID,
                   nextUserID, createdFrom, issuedFor>>

\* userStore.GetByEmail(params.Login): the login must still be free.
RegGetByEmail(p) ==
    /\ au[p].op = "reg" /\ au[p].pc = "getUser"
    /\ au' = [au EXCEPT ![p] = IF GetByEmail(users, au[p].login) # NoUser
                                THEN [@ EXCEPT !.pc = "done", !.res = "EmailTaken"]
                                ELSE [@ EXCEPT !.pc = "consume"]]
    /\ UNCHANGED <<rq, sync, recVars, streamVars, now, users, tokenVars, pendingSignups, pendingLogins, nextSID,
                   nextUserID, createdFrom, issuedFor>>

\* signupStore.Consume(pendingSignup.SessionID).
RegConsume(p) ==
    /\ au[p].op = "reg" /\ au[p].pc = "consume"
    /\ pendingSignups' = Consume(pendingSignups, au[p].sid)
    /\ au' = [au EXCEPT ![p].pc = "createUser"]
    /\ UNCHANGED <<rq, sync, recVars, streamVars, now, users, tokenVars, pendingLogins, nextSID, nextUserID,
                   createdFrom, issuedFor>>

\* A users table without the UNIQUE constraint on email.
UniqueViolationNever(tbl, email) == FALSE

\* users.email is UNIQUE: an INSERT with an email that a row already has fails.
UniqueViolation(tbl, email) == \E u \in tbl : u.email = email

\* userStore.Create(user): INSERT INTO users.  Its error is returned wrapped
\* ("failed to create user: ..."), which the handler sends as Internal.
RegCreateUser(p) ==
    /\ au[p].op = "reg" /\ au[p].pc = "createUser"
    /\ IF UniqueViolation(users, au[p].login)
       THEN /\ au' = [au EXCEPT ![p].pc = "done", ![p].res = "Internal", ![p].lost = TRUE]
            /\ UNCHANGED <<users, nextUserID, createdFrom>>
       ELSE /\ nextUserID <= NumUsers
            /\ users' = users \cup {[id |-> nextUserID, email |-> au[p].login,
                                     storedKey |-> StoredKeyOf(au[p].key)]}
            /\ nextUserID' = nextUserID + 1
            /\ createdFrom' = createdFrom \cup {<<au[p].sid, nextUserID>>}
            /\ au' = [au EXCEPT ![p].pc = "done", ![p].res = "ok"]
    /\ UNCHANGED <<rq, sync, recVars, streamVars, now, tokenVars, pendingSignups, pendingLogins, nextSID, issuedFor>>

\* Auth.CompleteLogin, one step per store call.  The request is received.
LoginBegin(p, sid, login, key) ==
    /\ au[p].pc = "idle"
    /\ au' = [au EXCEPT ![p] = [IdleAuth EXCEPT !.op = "login", !.pc = "getUser",
                                   !.sid = sid, !.login = login, !.key = key]]
    /\ UNCHANGED <<rq, sync, recVars, streamVars, now, users, tokenVars, pendingSignups, pendingLogins, nextSID,
                   nextUserID, createdFrom, issuedFor>>

\* userStore.GetByEmail(params.Login).
LoginGetByEmail(p) ==
    /\ au[p].op = "login" /\ au[p].pc = "getUser"
    /\ LET user == GetByEmail(users, au[p].login)
           wire == CompleteLoginWire(Wrapped("failed to get user by email", ErrNotFound))
       IN
       au' = [au EXCEPT ![p] = IF user = NoUser
                                THEN [@ EXCEPT !.pc = "done", !.res = "NotFound", !.wire = wire]
                                ELSE [@ EXCEPT !.pc = "getSession", !.user = user]]
    /\ UNCHANGED <<rq, sync, recVars, streamVars, now, users, tokenVars, pendingSignups, pendingLogins, nextSID,
                   nextUserID, createdFrom, issuedFor>>

\* A variant of the step that goes on to Consume without protocol.VerifyLogin.
LoginGetBySessionIDUnverified(p) ==
    /\ au[p].op = "login" /\ au[p].pc = "getSession"
    /\ au' = [au EXCEPT ![p] =
                IF au[p].sid \notin DOMAIN pendingLogins
                THEN [@ EXCEPT !.pc = "done", !.res = "NotFound", !.wire = "Internal"]
                ELSE [@ EXCEPT !.pc = "consume"]]
    /\ UNCHANGED <<rq, sync, recVars, streamVars, now, users, tokenVars, pendingSignups, pendingLogins, nextSID,
                   nextUserID, createdFrom, issuedFor>>

\* loginStore.GetBySessionID, then protocol.VerifyLogin on the row read.
LoginGetBySessionID(p) ==
    /\ au[p].op = "login" /\ au[p].pc = "getSession"
    /\ LET err == IF au[p].sid \notin DOMAIN pendingLogins THEN "NotFound"
                  ELSE VerifyLogin(au[p].user.storedKey, pendingLogins[au[p].sid],
                           [sessionID |-> au[p].sid, login |-> au[p].login,
                            proof |-> ClientProof(au[p].key,
                                                  AuthMessage(au[p].login, au[p].sid))], now)
           returned == IF err = "NotFound"
                       THEN Wrapped("failed to get pending login", ErrNotFound)
                       ELSE Wrapped("failed to verify login", EngineError(err))
       IN au' = [au EXCEPT ![p] = IF err # "nil"
                                   THEN [@ EXCEPT !.pc = "done", !.res = err,
                                                  !.wire = CompleteLoginWire(returned)]
                                   ELSE [@ EXCEPT !.pc = "consume"]]
    /\ UNCHANGED <<rq, sync, recVars, streamVars, now, users, tokenVars, pendingSignups, pendingLogins, nextSID,
                   nextUserID, createdFrom, issuedFor>>

\* loginStore.Consume(pendingLogin.SessionID).
LoginConsume(p) ==
    /\ au[p].op = "login" /\ au[p].pc = "consume"
    /\ pendingLogins' = Consume(pendingLogins, au[p].sid)
    /\ au' = [au EXCEPT ![p].pc = "issue"]
    /\ UNCHANGED <<rq, sync, recVars, streamVars, now, users, tokenVars, pendingSignups, nextSID, nextUserID,
                   createdFrom, issuedFor>>

\* tokenService.Issue(user.ID), and the session result is built.
LoginIssue(p) ==
    /\ au[p].op = "login" /\ au[p].pc = "issue"
    /\ Issue(au[p].user.id)
    /\ issuedFor' = issuedFor \cup {<<au[p].sid, nextJTI>>}
    /\ au' = [au EXCEPT ![p].pc = "done", ![p].res = "ok", ![p].wire = CompleteLoginWire(NoErr)]
    /\ UNCHANGED <<rq, sync, recVars, streamVars, now, users, rf, refreshed, presented, revokedByToken, revokedByUser,
                   pendingSignups, pendingLogins, nextSID, nextUserID, createdFrom>>

\* The answer is sent.
AuthReturn(p) ==
    /\ au[p].pc = "done"
    /\ au' = [au EXCEPT ![p] = IdleAuth]
    /\ UNCHANGED <<rq, sync, recVars, streamVars, now, users, tokenVars, pendingSignups, pendingLogins, nextSID,
                   nextUserID, createdFrom, issuedFor>>

\* ---------------------------------------------------------- record service

NewErrRecordNotFound(id) == [kind |-> "api", code |-> "NotFound", message |-> "record not found"]

\* handler.handleError: the status sent to the client.
handleError(err) ==
    IF err.kind = "api" THEN [code |-> err.code, message |-> err.message]
    ELSE IF err = ErrNotFound THEN [code |-> "NotFound", message |-> "record not found"]
    ELSE [code |-> "Internal", message |-> "internal server error"]

\* model.Record{}: the zero record.
ZeroRecord == [id |-> Nil, ownerID |-> Nil, requestID |-> Nil, name |-> Nil, type |-> "",
               encryptedData |-> Nil, s3Key |-> Nil, encryptedChunkSize |-> 0,
               createdAt |-> Nil, updatedAt |-> Nil, deletedAt |-> Nil]

\* model.RecordType: the kinds of record.
RecordTypes == {"login", "note", "card", "binary"}

\* The row of (owner_id, request_id) that the unique index
\* uid_records_owner_request already holds, if any.
Conflicting(tbl, row) ==
    {id \in DOMAIN tbl : /\ row.requestID # Nil
                         /\ tbl[id].ownerID = row.ownerID
                         /\ tbl[id].requestID = row.requestID}

\* A records table without the unique index: a plain INSERT.
RecordCreateNoIndex(tbl, row) ==
    [tbl |-> [id \in DOMAIN tbl \cup {row.id} |-> IF id = row.id THEN row ELSE tbl[id]],
     saved |-> row]

\* A variant of the INSERT that overwrites the row on conflict
\* (ON CONFLICT ... DO UPDATE).
RecordCreateUpsert(tbl, row) ==
    IF Conflicting(tbl, row) # {}
    THEN LET old == CHOOSE id \in Conflicting(tbl, row) : TRUE
             new == [row EXCEPT !.id = old]
         IN [tbl |-> [tbl EXCEPT ![old] = new], saved |-> new]
    ELSE [tbl |-> [id \in DOMAIN tbl \cup {row.id} |-> IF id = row.id THEN row ELSE tbl[id]],
          saved |-> row]

\* RecordRepository.Create: INSERT ... ON CONFLICT (owner_id, request_id)
\* WHERE request_id IS NOT NULL DO NOTHING, UNION ALL the row already there;
\* the owner of the returned record is set from the input.
RecordCreate(tbl, row) ==
    IF Conflicting(tbl, row) # {}
    THEN LET old == CHOOSE id \in Conflicting(tbl, row) : TRUE
         IN [tbl |-> tbl, saved |-> [tbl[old] EXCEPT !.ownerID = row.ownerID]]
    ELSE [tbl |-> [id \in DOMAIN tbl \cup {row.id} |-> IF id = row.id THEN row ELSE tbl[id]],
          saved |-> row]

\* A GetByID without the deleted_at IS NULL condition.
RecordGetByIDAnyRow(tbl, id) ==
    IF id \in DOMAIN tbl
    THEN [err |-> NoErr, record |-> tbl[id]]
    ELSE [err |-> ErrNotFound, record |-> ZeroRecord]

\* RecordRepository.GetByID: WHERE id = $1 AND deleted_at IS NULL.
RecordGetByID(tbl, id) ==
    IF id \in DOMAIN tbl /\ tbl[id].deletedAt = Nil
    THEN [err |-> NoErr, record |-> tbl[id]]
    ELSE [err |-> ErrNotFound, record |-> ZeroRecord]

\* Record.GetRecord(userID, recordID).
GetRecord(tbl, userID, recordID) ==
    LET r == RecordGetByID(tbl, recordID) IN
    IF r.err # NoErr
    THEN [err |-> Wrapped("failed to get record by id", r.err), record |-> ZeroRecord]
    ELSE IF r.record.ownerID # userID
    THEN [err |-> NewErrRecordNotFound(recordID), record |-> ZeroRecord]
    ELSE [err |-> NoErr, record |-> r.record]

IdleRecord == [op |-> "none", pc |-> "idle", params |-> ZeroRecord, record |-> ZeroRecord,
               uploaded |-> "none", res |-> "none", out |-> Nil,
               query |-> [type |-> "", updatedAfter |-> 0, includeDeleted |-> FALSE],
               list |-> <<>>, tombstones |-> <<>>, serverTime |-> Nil, wireTime |-> Nil,
               storeFailed |-> FALSE]

\* Record.CreateRecord: the user exists, the record is built from the request
\* as it came; data is the request's EncryptedData, Nil when it is empty.
CreateRecordBegin(p, owner, requestID, name, type, data) ==
    /\ rc[p].pc = "idle"
    /\ \E u \in users : u.id = owner
    /\ LET record == [ZeroRecord EXCEPT !.ownerID = owner, !.requestID = requestID,
                                        !.name = name, !.type = type,
                                        !.encryptedData = data]
       IN rc' = [rc EXCEPT ![p] = [IdleRecord EXCEPT !.op = "create", !.pc = "create",
                                      !.params = record, !.record = record]]
    /\ UNCHANGED <<rq, sync, now, users, tokenVars, authVars, streamVars, records, nextRecordID, blobs, nextKey,
                   deleteLog, got>>

\* Record.validateMetadata; the name stands for the name, the encrypted key
\* and the algorithm, which are all required.
validateMetadata(metadata) ==
    IF metadata.name = Nil THEN "record name is required"
    ELSE IF metadata.type = "" THEN "record type is required"
    ELSE IF metadata.type \notin RecordTypes THEN "invalid record type"
    ELSE IF metadata.type = "binary" /\ metadata.chunkSize <= 0
    THEN "chunk size must be > 0 for binary records"
    ELSE "nil"

\* Record.CreateRecordStream up to saveRecord for a stream that opens with a
\* metadata frame: the user exists, the metadata is validated, the blob key is
\* generated and the record is built.
CreateRecordStreamBegin(p, owner, requestID, name, type, chunkSize) ==
    /\ rc[p].pc = "idle"
    /\ \E u \in users : u.id = owner
    /\ IF validateMetadata([name |-> name, type |-> type, chunkSize |-> chunkSize,
                            requestID |-> requestID]) # "nil"
       THEN /\ rc' = [rc EXCEPT ![p] = [IdleRecord EXCEPT !.op = "stream", !.pc = "done",
                                           !.res = "Internal"]]
            /\ UNCHANGED nextKey
       ELSE /\ nextKey <= MaxKeys
            /\ LET record == [ZeroRecord EXCEPT !.ownerID = owner, !.requestID = requestID,
                                                !.name = name, !.type = type,
                                                !.s3Key = nextKey,
                                                !.encryptedChunkSize = chunkSize]
               IN rc' = [rc EXCEPT ![p] = [IdleRecord EXCEPT !.op = "stream", !.pc = "upload",
                                              !.params = record, !.record = record]]
            /\ nextKey' = nextKey + 1
    /\ UNCHANGED <<rq, sync, now, users, tokenVars, authVars, streamVars, records, nextRecordID, blobs,
                   deleteLog, got>>

\* ------------------------------------------------------------ record streams
\* readMetadataFromStream: const maxAttempts.
maxAttempts == 100

\* A nil *model.RecordMetadata.
NoMetadata == [name |-> Nil, type |-> "", chunkSize |-> 0, requestID |-> Nil]

\* model.CreateRecordStreamRequest as protoStreamReader.Recv builds it: a
\* metadata frame carries no data, a data frame no metadata; <<>> is a nil or
\* empty DataChunk.
MetadataFrame(m) == [isMetadata |-> TRUE, metadata |-> m, dataChunk |-> <<>>]
DataFrame(chunk) == [isMetadata |-> FALSE, metadata |-> NoMetadata, dataChunk |-> chunk]

\* What stream.Recv returns: a frame, io.EOF, or another error.
Received(frame) == [err |-> "nil", frame |-> frame]
RecvEOF == [err |-> "EOF", frame |-> DataFrame(<<>>)]
RecvError == [err |-> "error", frame |-> DataFrame(<<>>)]

\* The streams of one request.  attempts is the counter of
\* readMetadataFromStream; of the frames Recv has returned to it, framesRead
\* counts all, unusable those without metadata and without bytes, and early
\* tells that one was a data frame with bytes.  metadata is what it returned
\* and err the error of the service call.  chunks are the data frames the
\* pump has written and later tells that it has met a metadata frame; pipe is
\* the io.Pipe and pipeErr its CloseWithError.  sent are the frames
\* StreamRecordToClient has sent and offset its position in the object.
\* pump is the position of the pump goroutine (none until it is started; at
\* stream.Recv; inside dataWriter.Write with the bytes in writing; returned),
\* uploader tells whether storage.Upload is reading the pipe or has returned,
\* and cancelled that the context of the request is done.
IdleStream == [attempts |-> 0, framesRead |-> 0, unusable |-> 0, early |-> FALSE,
               metadata |-> NoMetadata, err |-> "nil", chunks |-> <<>>, later |-> FALSE,
               pipe |-> <<>>, pipeErr |-> FALSE, sent |-> <<>>, offset |-> 0,
               pump |-> "none", writing |-> <<>>, uploader |-> "none", cancelled |-> FALSE]

\* A loop condition that admits one attempt more.
MoreAttemptsOffByOne(attempts) == attempts <= maxAttempts

\* readMetadataFromStream: for attempts < maxAttempts.
MoreAttempts(attempts) == attempts < maxAttempts

\* A test that takes no frame for a data chunk.
IsDataChunkNever(frame) == FALSE

\* readMetadataFromStream: req.DataChunk != nil && len(req.DataChunk) > 0.
IsDataChunk(frame) == Len(frame.dataChunk) > 0

\* readMetadataFromStream: attempts++ and the loop condition; when it fails
\* the function returns "metadata not received after 100 attempts".
NextAttempt(attempts) ==
    IF MoreAttempts(attempts + 1)
    THEN [done |-> FALSE, err |-> "nil", metadata |-> NoMetadata, attempts |-> attempts + 1]
    ELSE [done |-> TRUE, err |-> "MetadataNotReceived", metadata |-> NoMetadata,
          attempts |-> attempts + 1]

\* readMetadataFromStream: one pass of the loop body on what Recv returned.
readMetadataFromStream(attempts, r) ==
    IF r.err = "EOF"
    THEN [done |-> TRUE, err |-> "StreamClosed", metadata |-> NoMetadata, attempts |-> attempts]
    ELSE IF r.err # "nil"
    THEN [done |-> TRUE, err |-> "RecvFailed", metadata |-> NoMetadata, attempts |-> attempts]
    ELSE IF r.frame.isMetadata
    THEN IF r.frame.metadata = NoMetadata
         THEN NextAttempt(attempts)
         ELSE [done |-> TRUE, err |-> "nil", metadata |-> r.frame.metadata,
               attempts |-> attempts]
    ELSE IF IsDataChunk(r.frame)
    THEN [done |-> TRUE, err |-> "ProtocolViolation", metadata |-> NoMetadata,
          attempts |-> attempts]
    ELSE NextAttempt(attempts)

\* Record.CreateRecordStream: the user exists; the call waits for metadata.
CreateStreamOpen(p, owner) ==
    /\ rc[p].pc = "idle"
    /\ \E u \in users : u.id = owner
    /\ rc' = [rc EXCEPT ![p] = [IdleRecord EXCEPT !.op = "stream", !.pc = "readMetadata",
                                   !.params = [ZeroRecord EXCEPT !.ownerID = owner]]]
    /\ st' = [st EXCEPT ![p] = IdleStream]
    /\ UNCHANGED <<rq, sync, now, users, tokenVars, authVars, records, nextRecordID, blobs, nextKey,
                   deleteLog, got, objects>>

\* Record.CreateRecordStream: one stream.Recv of readMetadataFromStream.  When
\* it returns metadata, validateMetadata follows, the pump is started, the
\* blob key is generated and the record is built for saveRecord.
ReadMetadataRecv(p, r) ==
    /\ rc[p].op = "stream" /\ rc[p].pc = "readMetadata"
    /\ LET step == readMetadataFromStream(st[p].attempts, r)
           read == st[p].framesRead + (IF r.err = "nil" THEN 1 ELSE 0)
           empty == /\ r.err = "nil" /\ r.frame.dataChunk = <<>>
                    /\ r.frame.isMetadata => r.frame.metadata = NoMetadata
           unusable == st[p].unusable + (IF empty THEN 1 ELSE 0)
           early == \/ st[p].early
                    \/ r.err = "nil" /\ ~r.frame.isMetadata /\ r.frame.dataChunk # <<>>
           \* fmt.Errorf("failed to read metadata: %w", err) and
           \* fmt.Errorf("invalid metadata: %w", err), through handleError
           returned(err) == Wrapped(err, [kind |-> "plain", code |-> "", message |-> err])
           failed(err) ==
               /\ rc' = [rc EXCEPT ![p].pc = "done",
                                   ![p].res = handleError(returned(err)).code]
               /\ st' = [st EXCEPT ![p].attempts = step.attempts, ![p].framesRead = read,
                                   ![p].unusable = unusable, ![p].early = early,
                                   ![p].err = err]
               /\ UNCHANGED nextKey
       IN IF ~step.done
          THEN /\ st' = [st EXCEPT ![p].attempts = step.attempts, ![p].framesRead = read,
                                   ![p].unusable = unusable, ![p].early = early]
               /\ UNCHANGED <<rc, nextKey>>
          ELSE IF step.err # "nil" THEN failed(step.err)
          ELSE IF validateMetadata(step.metadata) # "nil" THEN failed("InvalidMetadata")
          ELSE /\ nextKey <= MaxKeys
               /\ LET m == step.metadata
                      record == [ZeroRecord EXCEPT !.ownerID = rc[p].params.ownerID,
                                                   !.requestID = m.requestID,
                                                   !.name = m.name, !.type = m.type,
                                                   !.s3Key = nextKey,
                                                   !.encryptedChunkSize = m.chunkSize]
                  IN rc' = [rc EXCEPT ![p].pc = "pump", ![p].params = record,
                                      ![p].record = record]
               /\ nextKey' = nextKey + 1
               /\ st' = [st EXCEPT ![p] = [IdleStream EXCEPT !.metadata = step.metadata,
                                                             !.early = early]]
    /\ UNCHANGED <<rq, sync, now, users, tokenVars, authVars, records, nextRecordID, blobs,
                   deleteLog, got, objects>>

\* A pump in which a later metadata frame replaces the fields of the record.
AfterLaterMetadataOverwrite(record, m) ==
    [record EXCEPT !.requestID = m.requestID, !.name = m.name, !.type = m.type,
                   !.encryptedChunkSize = m.chunkSize]

\* The pump on a frame with IsMetadata: a warning, and continue.
AfterLaterMetadata(record, m) == record

\* Record.CreateRecordStream, the pump goroutine: one stream.Recv.  io.EOF
\* closes the pipe, another error (or a cancelled context) closes it with an
\* error; metadata frames and nil chunks are skipped; a chunk is written.
PumpRecv(p, r) ==
    /\ rc[p].op = "stream" /\ rc[p].pc = "pump"
    /\ IF r.err = "EOF"
       THEN /\ rc' = [rc EXCEPT ![p].pc = "upload"]
            /\ UNCHANGED st
       ELSE IF r.err # "nil"
       THEN /\ rc' = [rc EXCEPT ![p].pc = "upload"]
            /\ st' = [st EXCEPT ![p].pipeErr = TRUE]
       ELSE IF r.frame.isMetadata
       THEN /\ rc' = [rc EXCEPT ![p].record = AfterLaterMetadata(@, r.frame.metadata)]
            /\ st' = [st EXCEPT ![p].later = TRUE]
       ELSE IF r.frame.dataChunk = <<>>
       THEN UNCHANGED <<rc, st>>
       ELSE /\ st' = [st EXCEPT ![p].pipe = @ \o r.frame.dataChunk,
                                ![p].chunks = Append(@, r.frame.dataChunk)]
            /\ UNCHANGED rc
    /\ UNCHANGED <<rq, sync, now, users, tokenVars, authVars, records, nextRecordID, blobs, nextKey,
                   deleteLog, got, objects>>

\* storage.Upload(key, reader): the object holds what the reader gave.
Upload(store, key, bytes) ==
    [k \in DOMAIN store \cup {key} |-> IF k = key THEN bytes ELSE store[k]]

\* storage.Delete(key).
Delete(store, key) == [k \in DOMAIN store \ {key} |-> store[k]]

\* A variant of saveRecord that goes on to the insert whatever Upload returned.
AfterUploadIgnoringError(err) == "create"

\* saveRecord after storage.Upload: its error ends the call.
AfterUpload(err) == IF err # NoErr THEN "done" ELSE "create"

\* saveRecord: storage.Upload(record.S3Key, dataReader).  It fails when the
\* blob store fails or when the pipe was closed with an error (a failed
\* stream.Recv, a cancelled request).
SaveRecordUpload(p, ok) ==
    /\ rc[p].pc = "upload"
    /\ LET err == IF ok THEN NoErr ELSE ErrBackend
           next == AfterUpload(err)
       IN rc' = [rc EXCEPT ![p].pc = next,
                           ![p].uploaded = IF ok THEN "ok" ELSE "failed",
                           ![p].res = IF next = "done" THEN "Internal" ELSE "none"]
    /\ ok => ~st[p].pipeErr
    /\ blobs' = IF ok THEN blobs \cup {rc[p].record.s3Key} ELSE blobs
    /\ objects' = IF ok THEN Upload(objects, rc[p].record.s3Key, st[p].pipe) ELSE objects
    /\ UNCHANGED <<rq, sync, now, users, tokenVars, authVars, st, records, nextRecordID, nextKey,
                   deleteLog, got>>

\* saveRecord: record, err := recordStore.Create(record), which assigns the
\* returned record to the parameter (created_at and updated_at of a new row
\* default to NOW()); on an error storage.Delete(record.S3Key)
\* is called if record.S3Key is not empty, and the error is returned.
SaveRecordCreate(p, ok) ==
    /\ rc[p].pc = "create"
    /\ IF ok
       THEN /\ Conflicting(records, rc[p].record) # {} \/ nextRecordID <= MaxRecords
            /\ LET r == RecordCreate(records, [rc[p].record EXCEPT !.id = nextRecordID,
                                                                    !.createdAt = now,
                                                                    !.updatedAt = now]) IN
               /\ records' = r.tbl
               /\ nextRecordID' = IF r.saved.id = nextRecordID THEN nextRecordID + 1
                                  ELSE nextRecordID
               /\ rc' = [rc EXCEPT ![p].pc = "done", ![p].res = "ok",
                                   ![p].record = r.saved, ![p].out = r.saved.id]
            /\ UNCHANGED <<blobs, deleteLog, objects>>
       ELSE /\ LET record == ZeroRecord IN
               /\ rc' = [rc EXCEPT ![p].pc = "done", ![p].res = "Internal",
                                   ![p].record = record]
               /\ deleteLog' = IF record.s3Key # Nil THEN deleteLog \cup {record.s3Key}
                               ELSE deleteLog
               /\ blobs' = IF record.s3Key # Nil THEN blobs \ {record.s3Key} ELSE blobs
               /\ objects' = IF record.s3Key # Nil THEN Delete(objects, record.s3Key)
                              ELSE objects
            /\ UNCHANGED <<records, nextRecordID>>
    /\ UNCHANGED <<rq, sync, now, users, tokenVars, authVars, st, nextKey, got>>

\* The answer is sent.
RecordReturn(p) ==
    /\ rc[p].pc = "done"
    /\ rc' = [rc EXCEPT ![p] = IdleRecord]
    /\ st' = [st EXCEPT ![p] = IdleStream]
    /\ UNCHANGED <<rq, sync, now, users, tokenVars, authVars, records, nextRecordID, blobs, nextKey,
                   deleteLog, got, objects>>

\* Record.buildRecordMetadata(record).
buildRecordMetadata(record) ==
    [name |-> record.name, type |-> record.type, chunkSize |-> record.encryptedChunkSize,
     requestID |-> Nil]

\* model.GetRecordStreamResponse.
Response(metadata, dataChunk, isLastChunk) ==
    [metadata |-> metadata, dataChunk |-> dataChunk, isLastChunk |-> isLastChunk]

\* io.ReadFull(reader, buffer) at an offset of the object: the bytes read and
\* nil, io.ErrUnexpectedEOF when fewer than len(buffer) were left, io.EOF when
\* none was.
ReadFull(bytes, offset, size) ==
    LET n == IF Len(bytes) - offset < size THEN Len(bytes) - offset ELSE size
    IN [data |-> SubSeq(bytes, offset + 1, offset + n),
        err |-> IF n = size THEN "nil" ELSE IF n = 0 THEN "EOF" ELSE "ErrUnexpectedEOF"]

\* Record.StreamRecordToClient(userID, recordID, stream): the request is received.
GetStreamBegin(p, caller, recordID) ==
    /\ rc[p].pc = "idle"
    /\ rc' = [rc EXCEPT ![p] = [IdleRecord EXCEPT !.op = "getStream", !.pc = "getRecord",
                                   !.params = [ZeroRecord EXCEPT !.ownerID = caller,
                                                                 !.id = recordID]]]
    /\ st' = [st EXCEPT ![p] = IdleStream]
    /\ UNCHANGED <<rq, sync, now, users, tokenVars, authVars, records, nextRecordID, blobs, nextKey,
                   deleteLog, got, objects>>

\* StreamRecordToClient: s.GetRecord(userID, recordID).
GetStreamGetRecord(p) ==
    /\ rc[p].op = "getStream" /\ rc[p].pc = "getRecord"
    /\ LET r == GetRecord(records, rc[p].params.ownerID, rc[p].params.id) IN
       IF r.err # NoErr
       THEN /\ rc' = [rc EXCEPT ![p].pc = "done", ![p].res = handleError(r.err).code]
            /\ st' = [st EXCEPT ![p].err = "GetRecordFailed"]
       ELSE /\ rc' = [rc EXCEPT ![p].pc = "sendMetadata", ![p].record = r.record]
            /\ UNCHANGED st
    /\ UNCHANGED <<rq, sync, now, users, tokenVars, authVars, records, nextRecordID, blobs, nextKey,
                   deleteLog, got, objects>>

\* StreamRecordToClient: the metadata frame is sent; a record without a blob
\* key ends the call with "no data available for record".
GetStreamSendMetadata(p) ==
    /\ rc[p].op = "getStream" /\ rc[p].pc = "sendMetadata"
    /\ LET frame == Response(buildRecordMetadata(rc[p].record), <<>>, FALSE) IN
       IF rc[p].record.s3Key = Nil
       THEN /\ rc' = [rc EXCEPT ![p].pc = "done", ![p].res = "Internal"]
            /\ st' = [st EXCEPT ![p].sent = Append(@, frame), ![p].err = "NoData"]
       ELSE /\ rc' = [rc EXCEPT ![p].pc = "download"]
            /\ st' = [st EXCEPT ![p].sent = Append(@, frame)]
    /\ UNCHANGED <<rq, sync, now, users, tokenVars, authVars, records, nextRecordID, blobs, nextKey,
                   deleteLog, got, objects>>

\* StreamRecordToClient: GetRecordDataStream(record.S3Key), then the chunk
\* size of the record must be positive.
GetStreamDownload(p, ok) ==
    /\ rc[p].op = "getStream" /\ rc[p].pc = "download"
    /\ IF ~ok \/ rc[p].record.s3Key \notin DOMAIN objects
       THEN /\ rc' = [rc EXCEPT ![p].pc = "done", ![p].res = "Internal"]
            /\ st' = [st EXCEPT ![p].err = "StorageFailed"]
       ELSE IF rc[p].record.encryptedChunkSize <= 0
       THEN /\ rc' = [rc EXCEPT ![p].pc = "done", ![p].res = "Internal"]
            /\ st' = [st EXCEPT ![p].err = "InvalidChunkSize"]
       ELSE /\ rc' = [rc EXCEPT ![p].pc = "read"]
            /\ UNCHANGED st
    /\ UNCHANGED <<rq, sync, now, users, tokenVars, authVars, records, nextRecordID, blobs, nextKey,
                   deleteLog, got, objects>>

\* StreamRecordToClient: one pass of the loop, io.ReadFull and stream.Send.
GetStreamRead(p, ok) ==
    /\ rc[p].op = "getStream" /\ rc[p].pc = "read"
    /\ LET r == ReadFull(objects[rc[p].record.s3Key], st[p].offset,
                         rc[p].record.encryptedChunkSize) IN
       IF ~ok
       THEN /\ rc' = [rc EXCEPT ![p].pc = "done", ![p].res = "Internal"]
            /\ st' = [st EXCEPT ![p].err = "StorageFailed"]
       ELSE IF r.err = "nil"
       THEN /\ st' = [st EXCEPT ![p].sent = Append(@, Response(NoMetadata, r.data, FALSE)),
                                ![p].offset = @ + Len(r.data)]
            /\ UNCHANGED rc
       ELSE IF r.err = "EOF"
       THEN /\ rc' = [rc EXCEPT ![p].pc = "done", ![p].res = "ok"]
            /\ UNCHANGED st
       ELSE /\ rc' = [rc EXCEPT ![p].pc = "done", ![p].res = "ok"]
            /\ st' = [st EXCEPT ![p].sent = Append(@, Response(NoMetadata, r.data, TRUE)),
                                ![p].offset = @ + Len(r.data)]
    /\ UNCHANGED <<rq, sync, now, users, tokenVars, authVars, records, nextRecordID, blobs, nextKey,
                   deleteLog, got, objects>>

\* handler.GetRecord: Record.GetRecord, then handleError on its error.
GetRecordCall(caller, recordID) ==
    /\ LET r == GetRecord(records, caller, recordID)
           case == IF RecordGetByID(records, recordID).err # NoErr THEN "absent"
                   ELSE IF records[recordID].ownerID # caller THEN "nonowner"
                   ELSE "owner"
       IN got' = [caller |-> caller, id |-> recordID, case |-> case,
                  wire |-> IF r.err = NoErr THEN [code |-> "OK", message |-> ""]
                           ELSE handleError(r.err)]
    /\ UNCHANGED <<rq, sync, now, users, tokenVars, authVars, streamVars, records, nextRecordID, blobs, nextKey,
                   deleteLog, rc>>

\* ------------------------------------------------- the pump and the uploader
\* Record.CreateRecordStream after the metadata: io.Pipe(), the pump goroutine
\* is started, and saveRecord calls storage.Upload with the read end.
PipeOpen(p) ==
    /\ rc[p].op = "stream" /\ rc[p].pc = "pump" /\ st[p].pump = "none"
    /\ rc' = [rc EXCEPT ![p].pc = "save"]
    /\ st' = [st EXCEPT ![p].pump = "recv", ![p].uploader = "reading"]
    /\ UNCHANGED <<rq, sync, now, users, tokenVars, authVars, records, nextRecordID, blobs, nextKey,
                   deleteLog, got, objects>>

\* The pump goroutine, one pass of its loop up to dataWriter.Write: a done
\* context closes the pipe with an error; else one stream.Recv: io.EOF closes
\* the pipe, another error closes it with an error, metadata frames and nil
\* chunks are skipped, and with a chunk the pump enters dataWriter.Write.
PumpLoop(p, r) ==
    /\ st[p].pump = "recv"
    /\ st' = [st EXCEPT ![p] =
                IF st[p].cancelled THEN [@ EXCEPT !.pump = "done", !.pipeErr = TRUE]
                ELSE IF r.err = "EOF" THEN [@ EXCEPT !.pump = "done"]
                ELSE IF r.err # "nil" THEN [@ EXCEPT !.pump = "done", !.pipeErr = TRUE]
                ELSE IF r.frame.isMetadata THEN [@ EXCEPT !.later = TRUE]
                ELSE IF r.frame.dataChunk = <<>> THEN @
                ELSE [@ EXCEPT !.pump = "write", !.writing = r.frame.dataChunk]]
    /\ UNCHANGED <<rq, sync, now, users, tokenVars, authVars, rc, records, nextRecordID, blobs, nextKey,
                   deleteLog, got, objects>>

\* io.Pipe: dataWriter.Write returns when a Read of the other end has taken
\* the bytes, here a Read of storage.Upload.  (It would return an error if
\* the read end were closed; nothing closes it.)
PipeRead(p) ==
    /\ st[p].pump = "write" /\ st[p].uploader = "reading"
    /\ st' = [st EXCEPT ![p].pump = "recv", ![p].writing = <<>>,
                        ![p].pipe = @ \o st[p].writing,
                        ![p].chunks = Append(@, st[p].writing)]
    /\ UNCHANGED <<rq, sync, now, users, tokenVars, authVars, rc, records, nextRecordID, blobs, nextKey,
                   deleteLog, got, objects>>

\* saveRecord: storage.Upload returns.  It returns nil after it has read the
\* end of the pipe; it returns an error when the pipe was closed with an
\* error, and at any moment when the blob store fails or the context is done.
\* It does not close the reader it was given.
UploadReturn(p, ok) ==
    /\ rc[p].op = "stream" /\ rc[p].pc = "save" /\ st[p].uploader = "reading"
    /\ ok => st[p].pump = "done" /\ ~st[p].pipeErr
    /\ LET err == IF ok THEN NoErr ELSE ErrBackend
           next == AfterUpload(err)
       IN rc' = [rc EXCEPT ![p].pc = next,
                           ![p].uploaded = IF ok THEN "ok" ELSE "failed",
                           ![p].res = IF next = "done"
                                      THEN handleError(Wrapped("failed to save record", err)).code
                                      ELSE "none"]
    /\ st' = [st EXCEPT ![p].uploader = "stopped"]
    /\ blobs' = IF ok THEN blobs \cup {rc[p].record.s3Key} ELSE blobs
    /\ objects' = IF ok THEN Upload(objects, rc[p].record.s3Key, st[p].pipe) ELSE objects
    /\ UNCHANGED <<rq, sync, now, users, tokenVars, authVars, records, nextRecordID, nextKey,
                   deleteLog, got>>

\* The client cancels the call, or its deadline passes, while the handler runs.
CancelRequest(p) ==
    /\ rc[p].op = "stream" /\ rc[p].pc \in {"save", "create"} /\ ~st[p].cancelled
    /\ st' = [st EXCEPT ![p].cancelled = TRUE]
    /\ UNCHANGED <<rq, sync, now, users, tokenVars, authVars, rc, records, nextRecordID, blobs, nextKey,
                   deleteLog, got, objects>>

\* The handler returns and the answer is sent; the context of the stream is
\* done from then on.  The pump goroutine is not waited for.
StreamReturn(p) ==
    /\ rc[p].op = "stream" /\ rc[p].pc = "done" /\ st[p].uploader = "stopped"
    /\ rc' = [rc EXCEPT ![p] = IdleRecord]
    /\ st' = [st EXCEPT ![p].cancelled = TRUE]
    /\ UNCHANGED <<rq, sync, now, users, tokenVars, authVars, records, nextRecordID, blobs, nextKey,
                   deleteLog, got, objects>>

\* ------------------------------------------------------------ record delete
\* A SoftDelete stamped by a clock that is one tick ahead.
SoftDeleteAhead(tbl, id, t) ==
    IF id \in DOMAIN tbl /\ tbl[id].deletedAt = Nil
    THEN [err |-> NoErr, tbl |-> [tbl EXCEPT ![id].deletedAt = t + 1, ![id].updatedAt = t + 1]]
    ELSE [err |-> ErrNotFound, tbl |-> tbl]

\* RecordRepository.SoftDelete at time t: UPDATE records SET deleted_at = NOW(),
\* updated_at = NOW() WHERE id = $1 AND deleted_at IS NULL; no row affected is
\* model.ErrNotFound.
SoftDelete(tbl, id, t) ==
    IF id \in DOMAIN tbl /\ tbl[id].deletedAt = Nil
    THEN [err |-> NoErr, tbl |-> [tbl EXCEPT ![id].deletedAt = t, ![id].updatedAt = t]]
    ELSE [err |-> ErrNotFound, tbl |-> tbl]

\* A DeleteRecord that does not look at the owner of the record.
OwnedByAnyone(record, userID) == TRUE

\* DeleteRecord: record.OwnerID != userID is refused.
OwnedBy(record, userID) == record.ownerID = userID

\* handler.DeleteRecord: the caller is taken from the context and
\* Record.DeleteRecord(userID, recordID) is called.
DeleteBegin(p, caller, recordID) ==
    /\ rc[p].pc = "idle"
    /\ rc' = [rc EXCEPT ![p] = [IdleRecord EXCEPT !.op = "delete", !.pc = "get",
                                   !.params = [ZeroRecord EXCEPT !.ownerID = caller,
                                                                 !.id = recordID]]]
    /\ UNCHANGED <<rq, sync, now, users, tokenVars, authVars, streamVars, records, nextRecordID, blobs,
                   nextKey, deleteLog, got>>

\* DeleteRecord: recordStore.GetByID and the check of the owner.
DeleteGetByID(p, ok) ==
    /\ rc[p].op = "delete" /\ rc[p].pc = "get"
    /\ LET r == IF ok THEN RecordGetByID(records, rc[p].params.id)
                ELSE [err |-> ErrBackend, record |-> ZeroRecord]
           err == IF r.err = ErrNotFound THEN NewErrRecordNotFound(rc[p].params.id)
                  ELSE IF r.err # NoErr THEN Wrapped("failed to get record", r.err)
                  ELSE IF ~OwnedBy(r.record, rc[p].params.ownerID)
                  THEN NewErrRecordNotFound(rc[p].params.id)
                  ELSE NoErr
       IN rc' = [rc EXCEPT ![p].record = r.record,
                           ![p].storeFailed = ~ok,
                           ![p].pc = IF err # NoErr THEN "done"
                                     ELSE IF r.record.s3Key # Nil THEN "storage"
                                     ELSE "softDelete",
                           ![p].res = IF err # NoErr THEN handleError(err).code ELSE "none"]
    /\ UNCHANGED <<rq, sync, now, users, tokenVars, authVars, streamVars, records, nextRecordID, blobs,
                   nextKey, deleteLog, got>>

\* DeleteRecord: storage.Delete(record.S3Key); an error is only logged.
DeleteStorage(p, ok) ==
    /\ rc[p].op = "delete" /\ rc[p].pc = "storage"
    /\ rc' = [rc EXCEPT ![p].pc = "softDelete",
                        ![p].uploaded = IF ok THEN "deleted" ELSE "failed"]
    /\ blobs' = IF ok THEN blobs \ {rc[p].record.s3Key} ELSE blobs
    /\ objects' = IF ok THEN Delete(objects, rc[p].record.s3Key) ELSE objects
    /\ deleteLog' = IF ok THEN deleteLog \cup {rc[p].record.s3Key} ELSE deleteLog
    /\ UNCHANGED <<rq, sync, now, users, tokenVars, authVars, st, records, nextRecordID, nextKey, got>>

\* DeleteRecord: recordStore.SoftDelete(recordID), and the status of the call.
DeleteSoftDelete(p, ok) ==
    /\ rc[p].op = "delete" /\ rc[p].pc = "softDelete"
    /\ LET r == IF ok THEN SoftDelete(records, rc[p].params.id, now)
                ELSE [err |-> ErrBackend, tbl |-> records]
           err == IF r.err = ErrNotFound THEN NewErrRecordNotFound(rc[p].params.id)
                  ELSE IF r.err # NoErr THEN Wrapped("failed to soft delete record", r.err)
                  ELSE NoErr
       IN /\ records' = r.tbl
          /\ rc' = [rc EXCEPT ![p].pc = "done",
                              ![p].storeFailed = ~ok,
                              ![p].res = IF err # NoErr THEN handleError(err).code ELSE "ok"]
    /\ UNCHANGED <<rq, sync, now, users, tokenVars, authVars, streamVars, nextRecordID, blobs, nextKey,
                   deleteLog, got>>

\* -------------------------------------------------------------- record lists
\* time.Time.Unix(): the whole seconds of a time, which is counted in ticks.
Unix(t) == t \div TicksPerSecond

\* time.Unix(sec, 0): the time at the start of a second.
TimeUnix(sec) == sec * TicksPerSecond

\* The orders in which a query may return the rows ids by ORDER BY key ASC;
\* rows with equal keys come in any order.
Orderings(ids, key) ==
    {s \in [1 .. Cardinality(ids) -> ids] :
        \A i, j \in 1 .. Cardinality(ids) :
            i < j => (s[i] # s[j] /\ key[s[i]] <= key[s[j]])}

\* The rows of a result, in the order of the ids.
Rows(tbl, order) == [i \in DOMAIN order |-> tbl[order[i]]]

\* model.Tombstone of the rows of a result.
Tombstones(tbl, order) ==
    [i \in DOMAIN order |-> [id |-> order[i], deletedAt |-> tbl[order[i]].deletedAt]]

\* RecordRepository.GetByUserID: WHERE owner_id = $1 AND deleted_at IS NULL
\* ORDER BY created_at DESC.
GetByUserID(tbl, userID) ==
    LET ids == {id \in DOMAIN tbl : tbl[id].ownerID = userID /\ tbl[id].deletedAt = Nil}
    IN {Rows(tbl, o) : o \in Orderings(ids, [id \in ids |-> 0 - tbl[id].createdAt])}

\* RecordRepository.GetByUserIDAndType: the same with type = $2.
GetByUserIDAndType(tbl, userID, type) ==
    LET ids == {id \in DOMAIN tbl : /\ tbl[id].ownerID = userID /\ tbl[id].type = type
                                    /\ tbl[id].deletedAt = Nil}
    IN {Rows(tbl, o) : o \in Orderings(ids, [id \in ids |-> 0 - tbl[id].createdAt])}

\* A GetUpdatedAfter that orders by created_at DESC, as GetByUserID does.
GetUpdatedAfterNewestFirst(tbl, userID, t) ==
    LET ids == {id \in DOMAIN tbl : /\ tbl[id].ownerID = userID /\ tbl[id].deletedAt = Nil
                                    /\ tbl[id].updatedAt > t}
    IN {Rows(tbl, o) : o \in Orderings(ids, [id \in ids |-> 0 - tbl[id].createdAt])}

\* RecordRepository.GetUpdatedAfter: WHERE owner_id = $1 AND deleted_at IS NULL
\* AND updated_at > $2 ORDER BY updated_at ASC.
GetUpdatedAfter(tbl, userID, t) ==
    LET ids == {id \in DOMAIN tbl : /\ tbl[id].ownerID = userID /\ tbl[id].deletedAt = Nil
                                    /\ tbl[id].updatedAt > t}
    IN {Rows(tbl, o) : o \in Orderings(ids, [id \in ids |-> tbl[id].updatedAt])}

\* RecordRepository.GetUpdatedAfterByType: the same with type = $2.
GetUpdatedAfterByType(tbl, userID, type, t) ==
    LET ids == {id \in DOMAIN tbl : /\ tbl[id].ownerID = userID /\ tbl[id].type = type
                                    /\ tbl[id].deletedAt = Nil /\ tbl[id].updatedAt > t}
    IN {Rows(tbl, o) : o \in Orderings(ids, [id \in ids |-> tbl[id].updatedAt])}

\* A GetDeletedAfter that returns every tombstone of the user, whatever its
\* time.
GetDeletedAfterAll(tbl, userID, t) ==
    LET ids == {id \in DOMAIN tbl : tbl[id].ownerID = userID /\ tbl[id].deletedAt # Nil}
    IN {Tombstones(tbl, o) : o \in Orderings(ids, [id \in ids |-> tbl[id].deletedAt])}

\* RecordRepository.GetDeletedAfter: SELECT id, deleted_at WHERE owner_id = $1
\* AND deleted_at IS NOT NULL AND deleted_at > $2 ORDER BY deleted_at ASC.
GetDeletedAfter(tbl, userID, t) ==
    LET ids == {id \in DOMAIN tbl : /\ tbl[id].ownerID = userID /\ tbl[id].deletedAt # Nil
                                    /\ tbl[id].deletedAt > t}
    IN {Tombstones(tbl, o) : o \in Orderings(ids, [id \in ids |-> tbl[id].deletedAt])}

\* RecordRepository.GetDeletedAfterByType: the same with type = $2.
GetDeletedAfterByType(tbl, userID, type, t) ==
    LET ids == {id \in DOMAIN tbl : /\ tbl[id].ownerID = userID /\ tbl[id].type = type
                                    /\ tbl[id].deletedAt # Nil /\ tbl[id].deletedAt > t}
    IN {Tombstones(tbl, o) : o \in Orderings(ids, [id \in ids |-> tbl[id].deletedAt])}

\* handler.ListRecords: the delta path is taken only when
\* req.UpdatedAfter > 0 || req.IncludeDeleted.
IsDelta(updatedAfter, includeDeleted) == updatedAfter > 0 \/ includeDeleted

\* handler.ListRecords: the caller is taken from the context, the type filter
\* ("" for UNKNOWN) is converted and updatedAfter, in seconds, becomes
\* time.Unix(req.UpdatedAfter, 0); otherwise the plain list is read.
ListBegin(p, caller, typeFilter, updatedAfter, includeDeleted) ==
    /\ rc[p].pc = "idle"
    /\ rc' = [rc EXCEPT ![p] =
                 [IdleRecord EXCEPT !.op = "list",
                                    !.pc = IF IsDelta(updatedAfter, includeDeleted)
                                           THEN "updated" ELSE "all",
                                    !.params = [ZeroRecord EXCEPT !.ownerID = caller],
                                    !.query = [type |-> typeFilter,
                                               updatedAfter |-> TimeUnix(updatedAfter),
                                               includeDeleted |-> includeDeleted]]]
    /\ UNCHANGED <<rq, sync, now, users, tokenVars, authVars, streamVars, records, nextRecordID, blobs,
                   nextKey, deleteLog, got>>

\* Record.ListRecordsDelta: GetUpdatedAfter, or GetUpdatedAfterByType when a
\* type is given.
ListUpdated(p, ok) ==
    /\ rc[p].op = "list" /\ rc[p].pc = "updated"
    /\ LET q == rc[p].query
           userID == rc[p].params.ownerID
       IN IF ok
          THEN \E result \in (IF q.type = ""
                              THEN GetUpdatedAfter(records, userID, q.updatedAfter)
                              ELSE GetUpdatedAfterByType(records, userID, q.type,
                                                         q.updatedAfter)) :
                   rc' = [rc EXCEPT ![p].list = result,
                                    ![p].pc = IF q.includeDeleted THEN "deleted" ELSE "time"]
          ELSE rc' = [rc EXCEPT ![p].pc = "done", ![p].storeFailed = TRUE,
                                ![p].res = "Internal"]
    /\ UNCHANGED <<rq, sync, now, users, tokenVars, authVars, streamVars, records, nextRecordID, blobs,
                   nextKey, deleteLog, got>>

\* Record.ListRecordsDelta with includeDeleted: GetDeletedAfter, or
\* GetDeletedAfterByType when a type is given.
ListDeleted(p, ok) ==
    /\ rc[p].op = "list" /\ rc[p].pc = "deleted"
    /\ LET q == rc[p].query
           userID == rc[p].params.ownerID
       IN IF ok
          THEN \E result \in (IF q.type = ""
                              THEN GetDeletedAfter(records, userID, q.updatedAfter)
                              ELSE GetDeletedAfterByType(records, userID, q.type,
                                                         q.updatedAfter)) :
                   rc' = [rc EXCEPT ![p].tombstones = result, ![p].pc = "time"]
          ELSE rc' = [rc EXCEPT ![p].pc = "done", ![p].storeFailed = TRUE,
                                ![p].res = "Internal", ![p].list = <<>>]
    /\ UNCHANGED <<rq, sync, now, users, tokenVars, authVars, streamVars, records, nextRecordID, blobs,
                   nextKey, deleteLog, got>>

\* Record.ListRecordsDelta: serverTime := time.Now(); the handler answers with
\* ServerTime: serverTime.Unix().
ListServerTime(p) ==
    /\ rc[p].op = "list" /\ rc[p].pc = "time"
    /\ rc' = [rc EXCEPT ![p].serverTime = now, ![p].wireTime = Unix(now),
                        ![p].pc = "done", ![p].res = "ok"]
    /\ UNCHANGED <<rq, sync, now, users, tokenVars, authVars, streamVars, records, nextRecordID, blobs,
                   nextKey, deleteLog, got>>

\* handler.ListRecords without delta: GetRecords, or GetLogins, GetNotes,
\* GetCards, GetBinaries by the type filter; the answer has no server time.
ListAll(p, ok) ==
    /\ rc[p].op = "list" /\ rc[p].pc = "all"
    /\ LET q == rc[p].query
           userID == rc[p].params.ownerID
       IN IF ok
          THEN \E result \in (IF q.type = "" THEN GetByUserID(records, userID)
                              ELSE GetByUserIDAndType(records, userID, q.type)) :
                   rc' = [rc EXCEPT ![p].list = result, ![p].wireTime = 0,
                                    ![p].pc = "done", ![p].res = "ok"]
          ELSE rc' = [rc EXCEPT ![p].pc = "done", ![p].storeFailed = TRUE,
                                ![p].res = "Internal"]
    /\ UNCHANGED <<rq, sync, now, users, tokenVars, authVars, streamVars, records, nextRecordID, blobs,
                   nextKey, deleteLog, got>>

\* handler.ListRecords: proto.Tombstone{RecordId, DeletedAt: t.DeletedAt.Unix()}.
ProtoTombstone(t) == [id |-> t.id, deletedAt |-> Unix(t.deletedAt)]

\* The ids of the records, or tombstones, of an answer.
IDs(list) == {list[i].id : i \in DOMAIN list}

\* A client that has not synchronised yet: updatedAfter = 0, nothing received.
IdleSync == [watermark |-> 0, records |-> {}, tombstones |-> {}]

\* The client asks for the changes since its watermark, tombstones included.
SyncBegin(p, caller) ==
    /\ ListBegin(p, caller, "", sync.watermark, TRUE)

\* The client receives the answer of its ListRecords call: it keeps the
\* records and the tombstones and takes ServerTime as its next updatedAfter.
\* A failed call changes nothing.
SyncReturn(p) ==
    /\ rc[p].op = "list" /\ rc[p].pc = "done"
    /\ sync' = IF rc[p].res = "ok"
               THEN [watermark |-> rc[p].wireTime,
                     records |-> sync.records \cup IDs(rc[p].list),
                     tombstones |-> sync.tombstones \cup IDs(rc[p].tombstones)]
               ELSE sync
    /\ rc' = [rc EXCEPT ![p] = IdleRecord]
    /\ UNCHANGED <<rq, now, users, tokenVars, authVars, streamVars, records, nextRecordID, blobs,
                   nextKey, deleteLog, got>>

\* ---------------------------------------------------------- specifications
UserRow(u) == [id |-> u, email |-> u, storedKey |-> StoredKeyOf(u)]

\* No record was created and no record request is in progress.
RecordQuiet ==
    /\ records = <<>>
    /\ nextRecordID = 1
    /\ blobs = {}
    /\ nextKey = 1
    /\ deleteLog = {}
    /\ rc = [p \in Procs |-> IdleRecord]
    /\ got = [caller |-> Nil, id |-> Nil, case |-> "none", wire |-> [code |-> "", message |-> ""]]
    /\ st = [p \in Procs |-> IdleStream]
    /\ objects = <<>>
    /\ rq = IdleRequest
    /\ sync = IdleSync

\* No registration or login is in progress and none was started.
AuthQuiet ==
    /\ pendingSignups = <<>>
    /\ pendingLogins = <<>>
    /\ nextSID = 1
    /\ au = [p \in Procs |-> IdleAuth]
    /\ createdFrom = {}
    /\ issuedFor = {}

InitRegistered ==
    /\ now = 1
    /\ users = {UserRow(u) : u \in UserIDs}
    /\ refreshTokens = <<>>
    /\ nextJTI = 1
    /\ clientTokens = {}
    /\ rf = [p \in Procs |-> IdleRefresh]
    /\ refreshed = {}
    /\ presented = {}
    /\ revokedByToken = {}
    /\ revokedByUser = {}
    /\ nextUserID = NumUsers + 1
    /\ AuthQuiet
    /\ RecordQuiet

\* One registered user has logged in: Issue has stored the row of its refresh
\* token and returned the token.
InitIssued ==
    LET refresh == GenerateRefreshToken(1, 1, 1) IN
    /\ now = 1
    /\ users = {UserRow(u) : u \in UserIDs}
    /\ refreshTokens = RefreshTokenCreate(<<>>, NewRefreshRow(refresh, 1, Nil))
    /\ nextJTI = 2
    /\ clientTokens = {refresh}
    /\ rf = [p \in Procs |-> IdleRefresh]
    /\ refreshed = {}
    /\ presented = {}
    /\ revokedByToken = {}
    /\ revokedByUser = {}
    /\ nextUserID = NumUsers + 1
    /\ AuthQuiet
    /\ RecordQuiet

RefreshBeginCall == \E p \in Procs, tok \in Presentable : RefreshBegin(p, tok, FALSE)
RefreshBeginSeq == \E tok \in Presentable : RefreshBegin(1, tok, TRUE)
RefreshBeginAny == \E tok \in PresentableOrResigned : RefreshBegin(1, tok, TRUE)
RefreshGetByJTICall == \E p \in Procs : RefreshGetByJTI(p)
RefreshRevokeCall == \E p \in Procs : RefreshRevoke(p)
RefreshCreateCall == \E p \in Procs, ok \in BOOLEAN : RefreshCreate(p, ok)
RefreshReturnCall == \E p \in Procs : RefreshReturn(p)

\* Concurrent Refresh calls.
NextToken ==
    \/ RefreshBeginCall
    \/ RefreshGetByJTICall
    \/ RefreshRevokeCall
    \/ RefreshCreateCall
    \/ RefreshReturnCall
    \/ Tick

SpecToken == InitIssued /\ [][NextToken]_vars

\* One Refresh call at a time (a client that waits for each answer), with the
\* revocation endpoints and the clock interleaved between its store calls.
NextSeq ==
    \/ RefreshBeginSeq
    \/ RefreshGetByJTICall
    \/ RefreshRevokeCall
    \/ RefreshCreateCall
    \/ RefreshReturnCall
    \/ RevokeByTokenCall
    \/ RevokeAllForUserCall
    \/ Tick

SpecSeq == InitIssued /\ [][NextSeq]_vars

\* One client that waits for each answer and may present any validly signed
\* string, re-signed ones included; the clock runs between its store calls.
NextValidate ==
    \/ RefreshBeginAny
    \/ RefreshGetByJTICall
    \/ RefreshRevokeCall
    \/ RefreshCreateCall
    \/ RefreshReturnCall
    \/ Tick

SpecValidate == InitIssued /\ [][NextValidate]_vars

\* Nobody is registered yet.
InitAuth ==
    /\ now = 1
    /\ users = {}
    /\ nextUserID = 1
    /\ refreshTokens = <<>>
    /\ nextJTI = 1
    /\ clientTokens = {}
    /\ rf = [p \in Procs |-> IdleRefresh]
    /\ refreshed = {}
    /\ presented = {}
    /\ revokedByToken = {}
    /\ revokedByUser = {}
    /\ AuthQuiet
    /\ RecordQuiet

GetRegParamsCall == \E login \in Logins : GetRegParams(login)
GetLoginParamsCall == \E login \in Logins : GetLoginParams(login)
\* The owner of login l holds client key l; a login may be tried with any key.
RegBeginCall ==
    \E p \in Procs, sid \in DOMAIN pendingSignups, login \in Logins :
        RegBegin(p, sid, login, login)
RegGetBySessionIDCall == \E p \in Procs : RegGetBySessionID(p)
RegGetByEmailCall == \E p \in Procs : RegGetByEmail(p)
RegConsumeCall == \E p \in Procs : RegConsume(p)
RegCreateUserCall == \E p \in Procs : RegCreateUser(p)
LoginBeginCall ==
    \E p \in Procs, sid \in DOMAIN pendingLogins, login \in Logins, key \in Keys :
        LoginBegin(p, sid, login, key)
LoginGetByEmailCall == \E p \in Procs : LoginGetByEmail(p)
LoginGetBySessionIDCall == \E p \in Procs : LoginGetBySessionID(p)
LoginConsumeCall == \E p \in Procs : LoginConsume(p)
LoginIssueCall == \E p \in Procs : LoginIssue(p)
AuthReturnCall == \E p \in Procs : AuthReturn(p)

\* Registration: clients start signup sessions and complete them, several
\* completions in flight at once, all within the lifetime of the sessions.
NextReg ==
    \/ GetRegParamsCall
    \/ RegBeginCall
    \/ RegGetBySessionIDCall
    \/ RegGetByEmailCall
    \/ RegConsumeCall
    \/ RegCreateUserCall
    \/ AuthReturnCall

SpecReg == InitAuth /\ [][NextReg]_vars

\* The state after GetRegParams has answered MaxSessions times while no user
\* was registered: every session is pending, for any of the logins.
InitSignups ==
    /\ now = 1
    /\ users = {}
    /\ nextUserID = 1
    /\ refreshTokens = <<>>
    /\ nextJTI = 1
    /\ clientTokens = {}
    /\ rf = [p \in Procs |-> IdleRefresh]
    /\ refreshed = {}
    /\ presented = {}
    /\ revokedByToken = {}
    /\ revokedByUser = {}
    /\ pendingSignups \in [SessionIDs -> [sessionID : SessionIDs, login : Logins,
                                          expiresAt : {1 + PendingSessionDuration},
                                          consumed : {FALSE}]]
    /\ \A s \in SessionIDs : pendingSignups[s].sessionID = s
    /\ pendingLogins = <<>>
    /\ nextSID = MaxSessions + 1
    /\ au = [p \in Procs |-> IdleAuth]
    /\ createdFrom = {}
    /\ issuedFor = {}
    /\ RecordQuiet

\* A client completes a session with the login the session was opened for.
RegBeginOwn ==
    \E p \in Procs, sid \in DOMAIN pendingSignups :
        RegBegin(p, sid, pendingSignups[sid].login, pendingSignups[sid].login)

\* Completions of pending signups racing for logins, one call per client.
NextRace ==
    \/ RegBeginOwn
    \/ RegGetBySessionIDCall
    \/ RegGetByEmailCall
    \/ RegConsumeCall
    \/ RegCreateUserCall

SpecRace == InitSignups /\ [][NextRace]_vars

\* One client at a time registers and logs in while time passes, so that
\* sessions are completed before and after their expiry and more than once.
RegBeginOne ==
    \E sid \in DOMAIN pendingSignups :
        RegBegin(1, sid, pendingSignups[sid].login, pendingSignups[sid].login)
LoginBeginOne ==
    \E sid \in DOMAIN pendingLogins :
        LoginBegin(1, sid, pendingLogins[sid].login, pendingLogins[sid].login)

NextSession ==
    \/ GetRegParamsCall
    \/ GetLoginParamsCall
    \/ RegBeginOne
    \/ RegGetBySessionIDCall
    \/ RegGetByEmailCall
    \/ RegConsumeCall
    \/ RegCreateUserCall
    \/ LoginBeginOne
    \/ LoginGetByEmailCall
    \/ LoginGetBySessionIDCall
    \/ LoginConsumeCall
    \/ LoginIssueCall
    \/ AuthReturnCall
    \/ Tick

SpecSession == InitAuth /\ [][NextSession]_vars

\* Login of registered users: clients start login sessions and complete them,
\* several completions in flight at once, all within the lifetime of the
\* sessions.
NextLogin ==
    \/ GetLoginParamsCall
    \/ LoginBeginCall
    \/ LoginGetByEmailCall
    \/ LoginGetBySessionIDCall
    \/ LoginConsumeCall
    \/ LoginIssueCall
    \/ AuthReturnCall

SpecLogin == InitRegistered /\ [][NextLogin]_vars

\* The record service for registered users: a client that creates records,
\* inline and streamed, one request at a time.
CreateRecordBeginOne ==
    \E owner \in UserIDs, requestID \in RequestIDs \cup {Nil}, name \in Names :
        CreateRecordBegin(1, owner, requestID, name, "note", 1)
CreateRecordStreamBeginOne ==
    \E owner \in UserIDs, requestID \in RequestIDs \cup {Nil}, name \in Names :
        CreateRecordStreamBegin(1, owner, requestID, name, "binary", 1)
SaveRecordUploadCall == \E p \in Procs, ok \in BOOLEAN : SaveRecordUpload(p, ok)
SaveRecordCreateCall == \E p \in Procs, ok \in BOOLEAN : SaveRecordCreate(p, ok)
RecordReturnCall == \E p \in Procs : RecordReturn(p)
GetRecordAny == \E caller \in UserIDs, id \in RecordIDs : GetRecordCall(caller, id)

NextRecord ==
    \/ CreateRecordBeginOne
    \/ CreateRecordStreamBeginOne
    \/ SaveRecordUploadCall
    \/ SaveRecordCreateCall
    \/ RecordReturnCall

SpecRecord == InitRegistered /\ [][NextRecord]_vars

\* Clients creating records concurrently, inline and streamed, one call per
\* client.
CreateRecordBeginAny ==
    \E p \in Procs, owner \in UserIDs, requestID \in RequestIDs \cup {Nil} :
        CreateRecordBegin(p, owner, requestID, 1, "note", 1)
CreateRecordStreamBeginAny ==
    \E p \in Procs, owner \in UserIDs, requestID \in RequestIDs \cup {Nil} :
        CreateRecordStreamBegin(p, owner, requestID, 1, "binary", 1)

NextCreate ==
    \/ CreateRecordBeginAny
    \/ CreateRecordStreamBeginAny
    \/ SaveRecordUploadCall
    \/ SaveRecordCreateCall

SpecCreate == InitRegistered /\ [][NextCreate]_vars

\* One client creating records of any type, inline with and without data,
\* streamed with any chunk size.
CreateRecordBeginShape ==
    \E owner \in UserIDs, type \in {"note", "binary"}, data \in {Nil, 1} :
        CreateRecordBegin(1, owner, Nil, 1, type, data)
CreateRecordStreamBeginShape ==
    \E owner \in UserIDs, type \in {"note", "binary"}, chunkSize \in {0, 1} :
        CreateRecordStreamBegin(1, owner, Nil, 1, type, chunkSize)

NextShape ==
    \/ CreateRecordBeginShape
    \/ CreateRecordStreamBeginShape
    \/ SaveRecordUploadCall
    \/ SaveRecordCreateCall
    \/ RecordReturnCall

SpecShape == InitRegistered /\ [][NextShape]_vars

\* The same client creating inline records, and any user asking for any
\* record id between the store calls.
NextGet ==
    \/ CreateRecordBeginOne
    \/ SaveRecordCreateCall
    \/ RecordReturnCall
    \/ GetRecordAny

SpecGet == InitRegistered /\ [][NextGet]_vars

\* A client uploads a record as a stream of frames, and clients download the
\* records that exist as streams.  The k-th data frame carries bytes of value k.
Metadatas ==
    [name : Names, type : {"note", "binary"}, chunkSize : 0 .. MaxChunkSize,
     requestID : RequestIDs \cup {Nil}]
Chunk(k, len) == [i \in 1 .. len |-> k]

CreateStreamOpenOne == CreateStreamOpen(1, 1)
ReadMetadataRecvAny ==
    \E r \in {RecvEOF, RecvError, Received(MetadataFrame(NoMetadata)),
              Received(DataFrame(<<>>)), Received(DataFrame(Chunk(1, 1)))}
             \cup {Received(MetadataFrame(m)) : m \in Metadatas} :
        ReadMetadataRecv(1, r)
PumpRecvAny ==
    \E r \in {RecvEOF, RecvError, Received(DataFrame(<<>>))}
             \cup {Received(MetadataFrame(m)) : m \in Metadatas}
             \cup {Received(DataFrame(Chunk(Len(st[1].chunks) + 1, len))) :
                       len \in 1 .. MaxChunkLen} :
        /\ (r.err = "nil" /\ r.frame.dataChunk # <<>>) => Len(st[1].chunks) < MaxChunks
        /\ PumpRecv(1, r)
GetStreamBeginAny ==
    \E caller \in UserIDs, id \in DOMAIN records : GetStreamBegin(2, caller, id)
GetStreamGetRecordCall == \E p \in Procs : GetStreamGetRecord(p)
GetStreamSendMetadataCall == \E p \in Procs : GetStreamSendMetadata(p)
GetStreamDownloadCall == \E p \in Procs, ok \in BOOLEAN : GetStreamDownload(p, ok)
GetStreamReadCall == \E p \in Procs, ok \in BOOLEAN : GetStreamRead(p, ok)
GetStreamReturn == rc[2].op = "getStream" /\ RecordReturn(2)

NextStream ==
    \/ CreateStreamOpenOne
    \/ ReadMetadataRecvAny
    \/ PumpRecvAny
    \/ SaveRecordUploadCall
    \/ SaveRecordCreateCall
    \/ GetStreamBeginAny
    \/ GetStreamGetRecordCall
    \/ GetStreamSendMetadataCall
    \/ GetStreamDownloadCall
    \/ GetStreamReadCall
    \/ GetStreamReturn

SpecStream == InitRegistered /\ [][NextStream]_vars

\* One client creating records, inline and streamed, and another client
\* deleting records of any id in the name of any user.
CreateRecordBeginOwned ==
    \E owner \in UserIDs : CreateRecordBegin(1, owner, Nil, 1, "note", 1)
CreateRecordStreamBeginOwned ==
    \E owner \in UserIDs : CreateRecordStreamBegin(1, owner, Nil, 1, "binary", 1)
DeleteBeginAny == \E caller \in UserIDs, id \in RecordIDs : DeleteBegin(2, caller, id)
DeleteGetByIDCall == \E p \in Procs, ok \in BOOLEAN : DeleteGetByID(p, ok)
DeleteStorageCall == \E p \in Procs, ok \in BOOLEAN : DeleteStorage(p, ok)
DeleteSoftDeleteCall == \E p \in Procs, ok \in BOOLEAN : DeleteSoftDelete(p, ok)

NextDelete ==
    \/ CreateRecordBeginOwned
    \/ CreateRecordStreamBeginOwned
    \/ SaveRecordUploadCall
    \/ SaveRecordCreateCall
    \/ DeleteBeginAny
    \/ DeleteGetByIDCall
    \/ DeleteStorageCall
    \/ DeleteSoftDeleteCall
    \/ RecordReturnCall

SpecDelete == InitRegistered /\ [][NextDelete]_vars

\* The rows that exist before the first request: created in the first tick, or
\* in the first tick after one second, and not deleted or deleted in the
\* first tick.
InitialRows ==
    {row \in {[ZeroRecord EXCEPT !.id = id, !.ownerID = owner, !.name = 1, !.type = type,
                                 !.encryptedData = 1, !.createdAt = created,
                                 !.updatedAt = IF deleted = Nil THEN created ELSE deleted,
                                 !.deletedAt = deleted] :
                  id \in 1 .. NumRows, owner \in {1, NumUsers}, type \in {"note", "login"},
                  created \in {1, TicksPerSecond + 1}, deleted \in {Nil, 1}} :
        row.deletedAt # Nil => row.createdAt = 1}

\* Rows created without request id by the first and the last user, as notes
\* and logins, in the first tick and in the first tick after one second, some
\* of the first deleted in the first tick; no request is in progress.
InitRows ==
    /\ now = TicksPerSecond + 1
    /\ users = {UserRow(u) : u \in UserIDs}
    /\ refreshTokens = <<>>
    /\ nextJTI = 1
    /\ clientTokens = {}
    /\ rf = [p \in Procs |-> IdleRefresh]
    /\ refreshed = {}
    /\ presented = {}
    /\ revokedByToken = {}
    /\ revokedByUser = {}
    /\ nextUserID = NumUsers + 1
    /\ AuthQuiet
    /\ records \in {tbl \in [1 .. NumRows -> InitialRows] :
                       /\ \A i, j \in 1 .. NumRows :
                              i < j => tbl[i].createdAt <= tbl[j].createdAt
                       /\ \A i \in 1 .. NumRows : tbl[i].id = i}
    /\ nextRecordID = NumRows + 1
    /\ blobs = {}
    /\ nextKey = 1
    /\ deleteLog = {}
    /\ rc = [p \in Procs |-> IdleRecord]
    /\ got = [caller |-> Nil, id |-> Nil, case |-> "none", wire |-> [code |-> "", message |-> ""]]
    /\ st = [p \in Procs |-> IdleStream]
    /\ objects = <<>>
    /\ rq = IdleRequest
    /\ sync = IdleSync

\* One client that lists the records of the first user, with any filter, and
\* deletes records in the name of their owners, one request at a time.
ListBeginOne ==
    \E typeFilter \in {"", "note"}, updatedAfter \in 0 .. 2,
       includeDeleted \in BOOLEAN :
        ListBegin(1, 1, typeFilter, updatedAfter, includeDeleted)
ListUpdatedCall == \E p \in Procs, ok \in BOOLEAN : ListUpdated(p, ok)
ListDeletedCall == \E p \in Procs, ok \in BOOLEAN : ListDeleted(p, ok)
ListServerTimeCall == \E p \in Procs : ListServerTime(p)
ListAllCall == \E p \in Procs, ok \in BOOLEAN : ListAll(p, ok)
DeleteBeginOwn ==
    \E id \in DOMAIN records : DeleteBegin(1, records[id].ownerID, id)

NextDelta ==
    \/ ListBeginOne
    \/ ListUpdatedCall
    \/ ListDeletedCall
    \/ ListServerTimeCall
    \/ ListAllCall
    \/ DeleteBeginOwn
    \/ DeleteGetByIDCall
    \/ DeleteSoftDeleteCall
    \/ RecordReturnCall

SpecDelta == InitRows /\ [][NextDelta]_vars

\* The first user creating and deleting records, one request at a time, while
\* another client lists the records of that user and time passes.
CreateRecordBeginFirst == CreateRecordBegin(1, 1, Nil, 1, "note", 1)
DeleteBeginFirst == \E id \in DOMAIN records : DeleteBegin(1, 1, id)
ListBeginSecond ==
    \E updatedAfter \in 0 .. 1, includeDeleted \in BOOLEAN :
        ListBegin(2, 1, "", updatedAfter, includeDeleted)

NextDeltaRace ==
    \/ CreateRecordBeginFirst
    \/ SaveRecordCreateCall
    \/ DeleteBeginFirst
    \/ DeleteGetByIDCall
    \/ DeleteSoftDeleteCall
    \/ ListBeginSecond
    \/ ListUpdatedCall
    \/ ListDeletedCall
    \/ ListServerTimeCall
    \/ ListAllCall
    \/ RecordReturnCall
    \/ Tick

SpecDeltaRace == InitRegistered /\ [][NextDeltaRace]_vars

\* Calls of every route with every kind of authorization metadata: none, empty,
\* a string the server did not sign, and access and refresh tokens the server
\* signed at some earlier time for a user (or for uuid.Nil).
Credentials ==
    {NoToken, EmptyString}
      \cup {GenerateAccessToken(u, t) : u \in {Nil} \cup UserIDs, t \in 1..now}
      \cup {GenerateRefreshToken(u, 1, t) : u \in UserIDs, t \in 1..now}
Headers == {NoHeader} \cup {Header(b, tok) : b \in BOOLEAN, tok \in Credentials}

InterceptAny == \E route \in Routes, header \in Headers : Intercept(route, header, <<>>)

NextDemux ==
    \/ InterceptAny
    \/ Tick

SpecDemux == InitRegistered /\ [][NextDemux]_vars

\* A client that holds tokens of both classes and presents either class
\* everywhere a token is taken: as the bearer credential of a record route,
\* to Refresh and to RevokeByToken.
Classes == clientTokens \cup {GenerateAccessToken(u, t) : u \in UserIDs, t \in 1..now}

InterceptBearer ==
    \E tok \in Classes : Intercept(<<APIService, "ListRecords">>, Header(TRUE, tok), <<>>)
RefreshBeginEither == \E tok \in Classes : RefreshBegin(1, tok, TRUE)
RevokeByTokenEither == \E tok \in Classes : RevokeByToken(tok)

NextClasses ==
    \/ InterceptBearer
    \/ RefreshBeginEither
    \/ RefreshGetByJTICall
    \/ RefreshRevokeCall
    \/ RefreshCreateCall
    \/ RefreshReturnCall
    \/ RevokeByTokenEither

SpecClasses == InitIssued /\ [][NextClasses]_vars

\* One client uploads one stream: the pump goroutine and storage.Upload run
\* side by side, the upload or the insert may fail and the request may be
\* cancelled at any moment.
PumpMetadatas == [name : {1}, type : {"note", "binary"}, chunkSize : {1}, requestID : {Nil}]

CreateStreamOpenOnce == st[1].pump = "none" /\ CreateStreamOpen(1, 1)
ReadMetadataRecvValid ==
    \E m \in PumpMetadatas : ReadMetadataRecv(1, Received(MetadataFrame(m)))
PipeOpenCall == \E p \in Procs : PipeOpen(p)
PumpLoopAny ==
    \E r \in {RecvEOF, RecvError, Received(DataFrame(<<>>))}
             \cup {Received(MetadataFrame(m)) : m \in PumpMetadatas}
             \cup {Received(DataFrame(Chunk(Len(st[1].chunks) + 1, len))) :
                       len \in 1 .. MaxChunkLen} :
        /\ (r.err = "nil" /\ r.frame.dataChunk # <<>>) => Len(st[1].chunks) < MaxChunks
        /\ PumpLoop(1, r)
PipeReadCall == \E p \in Procs : PipeRead(p)
UploadReturnCall == \E p \in Procs, ok \in BOOLEAN : UploadReturn(p, ok)
CancelRequestCall == \E p \in Procs : CancelRequest(p)
StreamReturnCall == \E p \in Procs : StreamReturn(p)

NextPump ==
    \/ CreateStreamOpenOnce
    \/ ReadMetadataRecvValid
    \/ PipeOpenCall
    \/ PumpLoopAny
    \/ PipeReadCall
    \/ UploadReturnCall
    \/ SaveRecordCreateCall
    \/ CancelRequestCall
    \/ StreamReturnCall

SpecPump == InitRegistered /\ [][NextPump]_vars

\* One client at a time completes logins of registered users, for any pending
\* session, any login and with a proof made with any key.
LoginBeginKey ==
    \E sid \in DOMAIN pendingLogins, login \in Logins, key \in Keys :
        LoginBegin(1, sid, login, key)

NextProof ==
    \/ GetLoginParamsCall
    \/ LoginBeginKey
    \/ LoginGetByEmailCall
    \/ LoginGetBySessionIDCall
    \/ LoginConsumeCall
    \/ LoginIssueCall
    \/ AuthReturnCall

SpecProof == InitRegistered /\ [][NextProof]_vars

\* A client creates and deletes a record while another client of the same
\* user keeps its copy up to date with ListRecords, each call asking for the
\* changes since the ServerTime of its previous answer; time passes between
\* all store calls.
SyncBeginSecond == SyncBegin(2, 1)
SyncReturnSecond == SyncReturn(2)
RecordReturnFirst == RecordReturn(1)

NextSync ==
    \/ CreateRecordBeginFirst
    \/ SaveRecordCreateCall
    \/ DeleteBeginFirst
    \/ DeleteGetByIDCall
    \/ DeleteSoftDeleteCall
    \/ RecordReturnFirst
    \/ SyncBeginSecond
    \/ ListUpdatedCall
    \/ ListDeletedCall
    \/ ListServerTimeCall
    \/ SyncReturnSecond
    \/ Tick

SpecSync == InitRegistered /\ [][NextSync]_vars

\* -------------------------------------------------------------- properties
\* The refresh tokens that successful Refresh(tok) calls have produced.
SuccessorsOf(tok) ==
    {r[2] : r \in {x \in refreshed : x[1] = tok}} \cup
    {rf[p].out : p \in {q \in Procs : rf[q].pc = "done" /\ rf[q].res = "ok" /\ rf[q].tok = tok}}

\* C1: across every interleaving of concurrent Refresh(r0) calls, Refresh(r0)
\* never succeeds twice: at most one call returns a fresh token pair.
RefreshSucceedsAtMostOnce ==
    \A tok \in clientTokens : Cardinality(SuccessorsOf(tok)) <= 1

\* The refresh tokens that successful Refresh calls have returned.
RotationOutputs == {r[2] : r \in refreshed}

\* C8: sequential rotation law.  Once Refresh(r1) has returned r2, every later
\* Refresh(r1) that still parses fails with TokenRevoked; and the first later
\* Refresh(r2) is accepted: it returns a new pair unless r2's lifetime ran out
\* or the store failed the insert.
SequentialRotationLaw ==
    \A p \in Procs :
        (rf[p].pc = "done" /\ rf[p].res # "InvalidToken") =>
            /\ rf[p].afterRotate => rf[p].res = "TokenRevoked"
            /\ (rf[p].tok \in RotationOutputs /\ rf[p].first)
               => \/ rf[p].res = "ok"
                  \/ rf[p].res = "Backend"
                  \/ rf[p].res = "TokenExpired" /\ now > refreshTokens[rf[p].tok.jti].expiresAt

\* Refresh(r1) gave r2, a later Refresh(r1) was refused with TokenRevoked and
\* Refresh(r2) succeeded.
SequentialRotationWitness ==
    \E p \in Procs, r \in refreshed :
        /\ rf[p].pc = "done" /\ rf[p].tok = r[1]
        /\ rf[p].afterRotate /\ rf[p].res = "TokenRevoked"
        /\ \E r2 \in refreshed : r2[1] = r[2]

\* The answer to a presented token whose row was read, by the state of the row.
ExpectedRejection(row, tok, t) ==
    IF row.revokedAt # Nil THEN "TokenRevoked"
    ELSE IF t > row.expiresAt THEN "TokenExpired"
    ELSE IF row.tokenHash # hashRefresh(tok) THEN "TokenMismatch"
    ELSE "accepted"

\* C9: a presented token that parses and whose row is found is rejected with
\* TokenRevoked if the row's revokedAt is set, otherwise with TokenExpired if
\* now > expiresAt, otherwise with TokenMismatch if SHA-256(presented) differs
\* from tokenHash; a rejected call revokes no row and creates no row.
ValidationOrder ==
    [][\A p \in Procs :
         (rf[p].pc = "get" /\ rf'[p].pc # "get" /\ rf[p].tok.jti \in DOMAIN refreshTokens) =>
            LET expect == ExpectedRejection(refreshTokens[rf[p].tok.jti], rf[p].tok, now) IN
            IF expect = "accepted"
            THEN rf'[p].pc = "revoke"
            ELSE /\ rf'[p].pc = "done"
                 /\ rf'[p].res = expect
                 /\ refreshTokens' = refreshTokens
                 /\ nextJTI' = nextJTI]_vars

\* A call presenting a re-signed token was refused with TokenRevoked although
\* the row had also expired and its hash differs from the presented token's.
ValidationOrderWitness ==
    \E p \in Procs :
        /\ rf[p].pc = "done" /\ rf[p].res = "TokenRevoked"
        /\ now > refreshTokens[rf[p].tok.jti].expiresAt
        /\ refreshTokens[rf[p].tok.jti].tokenHash # hashRefresh(rf[p].tok)

\* C10: after RevokeByToken(r) returned nil, and after RevokeAllForUser(u)
\* returned nil for a user whose token r had a row, every later Refresh(r) that
\* still parses fails with TokenRevoked; and no step clears or changes a
\* revokedAt that is set.
RevocationIsFinal ==
    /\ [](\A p \in Procs :
            (rf[p].pc = "done" /\ rf[p].afterRevoke /\ rf[p].res # "InvalidToken")
                => rf[p].res = "TokenRevoked")
    /\ [][\A j \in DOMAIN refreshTokens :
            refreshTokens[j].revokedAt # Nil =>
                /\ j \in DOMAIN refreshTokens'
                /\ refreshTokens'[j].revokedAt = refreshTokens[j].revokedAt]_vars

\* A Refresh that began after a RevokeAllForUser covering its token was
\* refused with TokenRevoked, in a run that also used RevokeByToken, at a time
\* later than the revocation.
RevocationIsFinalWitness ==
    \E p \in Procs :
        /\ rf[p].pc = "done" /\ rf[p].afterRevoke /\ rf[p].res = "TokenRevoked"
        /\ rf[p].tok.jti \in revokedByUser
        /\ revokedByToken # {}
        /\ now > refreshTokens[rf[p].tok.jti].revokedAt

\* C2: a pending login session is consumed at most once: across every
\* interleaving of CompleteLogin calls that present the same sessionId, at most
\* one call succeeds and at most one token pair is issued for that session.
PendingLoginUsedOnce ==
    \A sid \in DOMAIN pendingLogins :
        Cardinality({i \in issuedFor : i[1] = sid}) <= 1

\* C3: a pending signup session is consumed at most once: across every
\* interleaving of CompleteReg calls that present the same sessionId, at most
\* one call succeeds and at most one user is created from that session.
PendingSignupUsedOnce ==
    \A sid \in DOMAIN pendingSignups :
        Cardinality({c \in createdFrom : c[1] = sid}) <= 1

\* C4: CreateRecord is idempotent per (owner, non-null requestId): a later call
\* with the same owner and requestId returns the first record's id, inserts no
\* row and leaves the first record's fields unchanged.
IdempotentCreate ==
    [][\A p \in Procs :
         (rc[p].pc = "create" /\ rc'[p].pc = "done" /\ rc[p].params.requestID # Nil) =>
            \A id \in DOMAIN records :
                (/\ records[id].ownerID = rc[p].params.ownerID
                 /\ records[id].requestID = rc[p].params.requestID)
                => /\ records' = records
                   /\ rc'[p].res = "ok" => rc'[p].out = id]_vars

\* A CreateRecord with the requestId of an earlier record of the same owner and
\* another name has returned the earlier record's id.
IdempotentCreateWitness ==
    \E p \in Procs :
        /\ rc[p].op = "create" /\ rc[p].pc = "done" /\ rc[p].res = "ok"
        /\ rc[p].params.requestID # Nil
        /\ rc[p].out \in DOMAIN records
        /\ records[rc[p].out].requestID = rc[p].params.requestID
        /\ records[rc[p].out].name # rc[p].params.name

\* An id that no record has.
AbsentID == MaxRecords + 1

\* C5: GetRecord of a record owned by another user gives the same wire outcome
\* (code and message) as GetRecord of an id that does not exist.
OwnershipHidden ==
    got.case = "nonowner" =>
        got.wire = handleError(GetRecord(records, got.caller, AbsentID).err)

\* C6: in CreateRecordStream, when the upload succeeded and the insert of the
\* record failed, storage.Delete was issued for the blob key before the call
\* returned its error.
CompensatingDelete ==
    \A p \in Procs :
        (rc[p].op = "stream" /\ rc[p].pc = "done" /\ rc[p].uploaded = "ok" /\ rc[p].res # "ok")
            => rc[p].params.s3Key \in deleteLog

\* C7: when Upload fails, the call returns an error and no record row is
\* persisted for it.
UploadFailureLeavesNoRecord ==
    \A p \in Procs :
        rc[p].uploaded = "failed" =>
            /\ rc[p].pc = "done"
            /\ rc[p].res # "ok"
            /\ \A id \in DOMAIN records : records[id].s3Key # rc[p].params.s3Key

\* A streamed create whose upload failed has returned, while an earlier record
\* exists.
UploadFailureWitness ==
    \E p \in Procs :
        /\ rc[p].op = "stream" /\ rc[p].uploaded = "failed" /\ rc[p].pc = "done"
        /\ rc[p].res = "Internal"
        /\ records # <<>>

\* C11: in every reachable state, also after concurrent CompleteReg calls from
\* different pending sessions for the same login, at most one user has any
\* given login.
LoginUnique ==
    \A u1 \in users, u2 \in users : u1.email = u2.email => u1 = u2

\* Two sessions were opened for one login, both were consumed by completions,
\* one completion created the user and the other has lost the insert.
LoginUniqueWitness ==
    \E p \in Procs, s1 \in DOMAIN pendingSignups, s2 \in DOMAIN pendingSignups :
        /\ s1 # s2
        /\ pendingSignups[s1].login = pendingSignups[s2].login
        /\ pendingSignups[s1].consumed /\ pendingSignups[s2].consumed
        /\ au[p].pc = "done" /\ au[p].lost
        /\ au[p].sid = s2 /\ au[p].login = pendingSignups[s1].login
        /\ \E c \in createdFrom : c[1] = s1

\* C12: when the user insert of CompleteReg loses to a concurrent registration
\* that took the login after the login-free check, the call fails with
\* EmailTaken and the pending signup remains consumed.
LostInsertIsEmailTaken ==
    \A p \in Procs :
        (au[p].pc = "done" /\ au[p].lost) =>
            /\ au[p].res = "EmailTaken"
            /\ pendingSignups[au[p].sid].consumed

\* The pending row that the call of p completes, in its table.
PendingOf(p) ==
    IF au[p].op = "reg" THEN pendingSignups[au[p].sid] ELSE pendingLogins[au[p].sid]

\* C13: a CompleteReg or CompleteLogin whose pending session is consumed, or
\* past its expiry, when the call reads it fails at that step and changes
\* nothing: no user is inserted, no token is issued, no pending row is written.
StaleSessionRejected ==
    [][\A p \in Procs :
         ( /\ au[p].pc = "getSession" /\ au'[p] # au[p]
           /\ au[p].sid \in DOMAIN (IF au[p].op = "reg" THEN pendingSignups ELSE pendingLogins)
           /\ (PendingOf(p).consumed \/ now > PendingOf(p).expiresAt) )
         => /\ au'[p].pc = "done" /\ au'[p].res \notin {"ok", "none"}
            /\ UNCHANGED <<users, refreshTokens, clientTokens, pendingSignups, pendingLogins>>
      ]_vars

\* A login on an expired session has been refused after a registration was
\* completed and the registration's session was consumed.
StaleSessionWitness ==
    /\ au[1].op = "login" /\ au[1].pc = "done" /\ au[1].res = "SessionExpired"
    /\ now > pendingLogins[au[1].sid].expiresAt
    /\ \E s \in DOMAIN pendingSignups : pendingSignups[s].consumed

\* C14: in every reachable state, under any interleaving of CreateRecord and
\* CreateRecordStream calls, at most one record row exists for each pair of an
\* owner and a non-null requestId.
OwnerRequestUnique ==
    \A i \in DOMAIN records, j \in DOMAIN records :
        ( /\ records[i].requestID # Nil
          /\ records[i].ownerID = records[j].ownerID
          /\ records[i].requestID = records[j].requestID ) => i = j

\* Two calls with the same owner and requestId, one inline and one streamed,
\* were in flight together and both have returned the id of the one row.
OwnerRequestUniqueWitness ==
    \E p \in Procs, q \in Procs :
        /\ p # q
        /\ rc[p].op = "create" /\ rc[q].op = "stream"
        /\ rc[p].pc = "done" /\ rc[q].pc = "done"
        /\ rc[p].res = "ok" /\ rc[q].res = "ok"
        /\ rc[p].params.requestID # Nil
        /\ rc[p].params.requestID = rc[q].params.requestID
        /\ rc[p].params.ownerID = rc[q].params.ownerID
        /\ rc[p].out = rc[q].out

\* C15: every persisted record has exactly one of encryptedData and blobKey
\* set, and every record of type binary has blobKey set and
\* encryptedChunkSize >= 1.
PayloadShape ==
    \A i \in DOMAIN records :
        /\ (records[i].encryptedData # Nil) # (records[i].s3Key # Nil)
        /\ records[i].type = "binary" =>
               (records[i].s3Key # Nil /\ records[i].encryptedChunkSize >= 1)

\* C16: in CreateRecordStream, when a data frame with bytes is received before
\* any metadata frame, the call fails with the protocol-violation error, no
\* blob key is used, nothing is uploaded and no record is inserted.
ChunkBeforeMetadata ==
    \A p \in Procs :
        st[p].early =>
            /\ rc[p].pc = "done" /\ rc[p].res # "ok"
            /\ st[p].err = "ProtocolViolation"
            /\ rc[p].record.s3Key = Nil
            /\ records = <<>> /\ blobs = {} /\ objects = <<>>

\* The data frame came after frames without metadata, and the call is over.
ChunkBeforeMetadataWitness ==
    /\ st[1].early /\ st[1].framesRead > 2
    /\ rc[1].op = "stream" /\ rc[1].pc = "done"

\* C17: while it waits for metadata, CreateRecordStream never reads a 101st
\* frame, and once 100 frames without usable metadata have come the call has
\* failed with MetadataNotReceived.
MetadataWaitBounded ==
    \A p \in Procs :
        /\ st[p].framesRead <= maxAttempts
        /\ st[p].unusable = maxAttempts =>
               (rc[p].pc = "done" /\ st[p].err = "MetadataNotReceived")

\* The call has failed after exactly 100 frames.
MetadataWaitBoundedWitness ==
    /\ rc[1].op = "stream" /\ rc[1].pc = "done"
    /\ st[1].err = "MetadataNotReceived"
    /\ st[1].framesRead = maxAttempts /\ st[1].unusable = maxAttempts

\* C18: a frame that the pump receives and that is not a data chunk, such as
\* a metadata frame after the first one, changes neither the record to be
\* saved nor the bytes piped to the upload, and the record that
\* CreateRecordStream inserts has the name, type, chunk size and requestId of
\* the first metadata frame.
FirstMetadataWins ==
    [][\A p \in Procs :
         /\ (rc[p].pc = "pump" /\ st'[p].chunks = st[p].chunks) =>
                /\ rc'[p].record = rc[p].record
                /\ st'[p].pipe = st[p].pipe
                /\ UNCHANGED <<records, objects>>
         /\ (rc[p].op = "stream" /\ rc[p].pc = "create" /\ records' # records) =>
                LET row == records'[rc'[p].out] IN
                /\ row.name = st[p].metadata.name
                /\ row.type = st[p].metadata.type
                /\ row.encryptedChunkSize = st[p].metadata.chunkSize
                /\ row.requestID = st[p].metadata.requestID
      ]_vars

\* A streamed record was inserted after its stream had carried data frames
\* and further metadata frames.
FirstMetadataWinsWitness ==
    /\ rc[1].op = "stream" /\ rc[1].pc = "done" /\ rc[1].res = "ok"
    /\ rc[1].out \in DOMAIN records
    /\ st[1].later /\ Len(st[1].chunks) >= 1

\* chunk_1 \o ... \o chunk_n.
RECURSIVE Concatenation(_)
Concatenation(chunks) ==
    IF chunks = <<>> THEN <<>> ELSE Head(chunks) \o Concatenation(Tail(chunks))

\* The data chunks of the frames sent, in order.
DataChunks(sent) == [i \in 1 .. Len(sent) |-> sent[i].dataChunk]

\* C19: the bytes handed to the blob store are the chunks of the data frames
\* in arrival order, and a following GetRecordStream of the created record by
\* its owner, one that has found the record and that the blob store has not
\* failed, emits data chunks whose concatenation is that byte string.
StreamRoundTrip ==
    /\ \A p \in Procs :
           rc[p].op = "stream" =>
               /\ st[p].pipe = Concatenation(st[p].chunks)
               /\ rc[p].uploaded = "ok" =>
                      objects[rc[p].params.s3Key] = Concatenation(st[p].chunks)
    /\ \A p \in Procs, q \in Procs :
           ( /\ rc[p].op = "stream" /\ rc[p].pc = "done" /\ rc[p].res = "ok"
             /\ rc[q].op = "getStream" /\ rc[q].pc = "done"
             /\ rc[q].params.id = rc[p].out
             /\ rc[q].params.ownerID = rc[p].params.ownerID
             /\ st[q].err \notin {"StorageFailed", "GetRecordFailed"} )
           => Concatenation(DataChunks(st[q].sent)) = Concatenation(st[p].chunks)

\* C20: a successful GetRecordStream of a record with a non-empty object has
\* sent one metadata frame without data first, then data frames of exactly
\* encryptedChunkSize bytes except possibly a shorter last one, and its last
\* frame, and no earlier one, has isLastChunk.
StreamFrames ==
    \A q \in Procs :
        ( /\ rc[q].op = "getStream" /\ rc[q].pc = "done" /\ rc[q].res = "ok"
          /\ objects[rc[q].record.s3Key] # <<>> )
        => LET sent == st[q].sent
               n == Len(sent)
           IN /\ n >= 2
              /\ sent[1].metadata # NoMetadata /\ sent[1].dataChunk = <<>>
              /\ \A i \in 2 .. n :
                     /\ sent[i].metadata = NoMetadata
                     /\ i < n => Len(sent[i].dataChunk) = rc[q].record.encryptedChunkSize
                     /\ Len(sent[i].dataChunk) \in 1 .. rc[q].record.encryptedChunkSize
              /\ \A i \in 1 .. n : sent[i].isLastChunk <=> i = n

\* The DeleteRecord of p is for a record that belongs to another user.
NotOwnerOf(p) ==
    /\ rc[p].op = "delete"
    /\ rc[p].params.id \in DOMAIN records
    /\ records[rc[p].params.id].ownerID # rc[p].params.ownerID

\* C21: a DeleteRecord of a record that exists and belongs to another user is
\* answered NotFound when the store answers, and no step of the call changes
\* the records, the blobs or their log: the blob is not deleted and the record
\* is not soft-deleted.
NonOwnerDeleteChangesNothing ==
    [][\A p \in Procs :
          (NotOwnerOf(p) /\ rc'[p] # rc[p])
              => /\ records' = records
                 /\ objects' = objects
                 /\ blobs' = blobs
                 /\ deleteLog' = deleteLog
                 /\ rc'[p].pc \in {"done", "idle"}
                 /\ (rc[p].pc = "get" /\ ~rc'[p].storeFailed) => rc'[p].res = "NotFound"
                 /\ rc'[p].res # "ok"]_vars

\* A client was answered NotFound for the blob record of another user, and the
\* record and its blob are there.
NonOwnerDeleteWitness ==
    \E p \in Procs :
        /\ NotOwnerOf(p) /\ rc[p].pc = "done" /\ rc[p].res = "NotFound"
        /\ records[rc[p].params.id].s3Key \in DOMAIN objects
        /\ records[rc[p].params.id].deletedAt = Nil

\* The ids of a list of records or tombstones.

\* The rows that a query of p is about: of its user and of its type, when it
\* has one.
Asked(p) ==
    {id \in DOMAIN records : /\ records[id].ownerID = rc[p].params.ownerID
                             /\ rc[p].query.type \in {"", records[id].type}}

\* C22: the records that ListDelta returns are exactly the rows of the user
\* (and of the type, when one is given) that are not deleted and were updated
\* after updatedAfter, each once and as stored, ordered by updated ascending.
DeltaRecordsExact ==
    [][\A p \in Procs :
          (rc[p].op = "list" /\ rc[p].pc = "updated" /\ rc'[p].pc \in {"deleted", "time"})
              => LET list == rc'[p].list
                     want == {id \in Asked(p) : /\ records[id].deletedAt = Nil
                                                /\ records[id].updatedAt
                                                       > rc[p].query.updatedAfter}
                 IN /\ IDs(list) = want
                    /\ Len(list) = Cardinality(want)
                    /\ \A i \in DOMAIN list : list[i] = records[list[i].id]
                    /\ \A i, j \in DOMAIN list :
                           i < j => list[i].updatedAt <= list[j].updatedAt]_vars

\* A delta list answered a record and left out a live record of the user
\* that was updated before updatedAfter.
DeltaRecordsWitness ==
    \E p \in Procs :
        /\ rc[p].op = "list" /\ rc[p].pc = "done" /\ rc[p].res = "ok"
        /\ rc[p].query.updatedAfter > 0
        /\ rc[p].list # <<>>
        /\ \E id \in Asked(p) : id \notin IDs(rc[p].list) /\ records[id].deletedAt = Nil

\* The same for a list of two records with different update times.
DeltaOrderWitness ==
    \E p \in Procs :
        /\ rc[p].op = "list" /\ rc[p].pc = "done" /\ rc[p].res = "ok"
        /\ rc[p].query.includeDeleted
        /\ Len(rc[p].list) = 2
        /\ rc[p].list[1].updatedAt < rc[p].list[2].updatedAt

\* C23: with includeDeleted the tombstones are exactly the (id, deletedAt) of
\* the rows of the user (and type) deleted after updatedAfter, and without it
\* there are none; a record that was soft-deleted before the call is not among
\* the records, and is among the tombstones when updatedAfter is before its
\* deletion.
TombstonesExact ==
    [][\A p \in Procs :
          /\ (rc[p].op = "list" /\ rc[p].pc = "deleted" /\ rc'[p].pc = "time")
                 => LET tombs == rc'[p].tombstones
                        want == {id \in Asked(p) : /\ records[id].deletedAt # Nil
                                                   /\ records[id].deletedAt
                                                          > rc[p].query.updatedAfter}
                    IN /\ IDs(tombs) = want
                       /\ Len(tombs) = Cardinality(want)
                       /\ \A i \in DOMAIN tombs :
                              tombs[i].deletedAt = records[tombs[i].id].deletedAt
          /\ (rc[p].op = "list" /\ rc[p].pc = "time" /\ rc'[p].pc = "done")
                 => /\ ~rc[p].query.includeDeleted => rc'[p].tombstones = <<>>
                    /\ \A id \in Asked(p) :
                           records[id].deletedAt # Nil
                               => /\ id \notin IDs(rc'[p].list)
                                  /\ (/\ rc[p].query.includeDeleted
                                      /\ rc[p].query.updatedAfter < records[id].deletedAt)
                                         => id \in IDs(rc'[p].tombstones)]_vars

\* A list with includeDeleted answered a tombstone and left out the tombstone
\* of a record of the user that was deleted earlier.
TombstonesWitness ==
    \E p \in Procs :
        /\ rc[p].op = "list" /\ rc[p].pc = "done" /\ rc[p].res = "ok"
        /\ rc[p].query.includeDeleted
        /\ rc[p].tombstones # <<>>
        /\ \E id \in Asked(p) : /\ records[id].deletedAt # Nil
                                /\ id \notin IDs(rc[p].tombstones)

\* C25: a list with updatedAfter = 0 and includeDeleted = false answers all
\* the live records of the user, ordered by updated ascending.
ZeroDeltaAscending ==
    \A p \in Procs :
        (/\ rc[p].op = "list" /\ rc[p].pc = "done" /\ rc[p].res = "ok"
         /\ rc[p].query.updatedAfter = 0 /\ ~rc[p].query.includeDeleted)
            => /\ IDs(rc[p].list) = {id \in Asked(p) : records[id].deletedAt = Nil}
               /\ \A i, j \in DOMAIN rc[p].list :
                      i < j => rc[p].list[i].updatedAt <= rc[p].list[j].updatedAt

ValidBearer ==
    /\ rq.header.present
    /\ rq.header.token.typ = "access"
    /\ rq.at < rq.header.token.exp
    /\ rq.header.token.userID # Nil

\* C26 (as stated): the routes reachable without credentials are exactly the
\* auth-start routes, three routes; a call of any other route is rejected
\* with Unauthenticated unless it carries a valid access token.
OnlyThreeOpenRoutes ==
    /\ Cardinality(OpenRoutes) = 3
    /\ rq.route \in Routes \ OpenRoutes /\ ~ValidBearer => rq.code = "Unauthenticated"

\* C26 (amended): exactly the routes of the Auth service are reachable without
\* credentials: a call of an Auth route always reaches its handler, and a call
\* of any record route is rejected with Unauthenticated before its handler
\* runs unless it carries a token that parses as a valid, unexpired access
\* token; then the handler runs with the token's user in the context.
OpenRoutesAreAuthRoutes ==
    rq.route \in Routes =>
        /\ rq.route[1] = AuthService => rq.handled /\ rq.code = "OK"
        /\ rq.route[1] # AuthService =>
              /\ rq.handled <=> ValidBearer
              /\ rq.handled => rq.code = "OK" /\ rq.userID = rq.header.token.userID
              /\ ~rq.handled => rq.code = "Unauthenticated"
        /\ ~rq.header.present /\ rq.handled => rq.route \in OpenRoutes
        /\ OpenRoutes = {<<AuthService, m>> : m \in AuthMethods}

OpenRoutesWitness ==
    /\ rq.route = <<APIService, "ListRecords">>
    /\ rq.header.present
    /\ rq.header.token.typ = "access"
    /\ rq.header.token.userID # Nil
    /\ ~(rq.at < rq.header.token.exp)
    /\ rq.code = "Unauthenticated"


\* C27: the two token classes are not interchangeable.  ParseRefreshToken
\* rejects every access token and ParseAccessToken every refresh token; the
\* middleware lets no call through on a refresh token; a Refresh that was
\* given an access token ends with InvalidToken and returns nothing; no
\* successful Refresh and no revocation by token was done on an access token
\* (each is of the jti of a refresh token that was issued).
TokenClassesApart ==
    /\ \A tok \in Classes :
          /\ tok.typ = "access" => ParseRefreshToken(tok, now).err # "nil"
          /\ tok.typ = "refresh" => ParseAccessToken(tok, now).err # "nil"
    /\ rq.handled /\ rq.route[1] = APIService => rq.header.token.typ = "access"
    /\ \A p \in Procs :
          rf[p].tok.typ = "access" =>
              rf[p].pc = "done" /\ rf[p].res = "InvalidToken" /\ rf[p].out = NoToken
    /\ \A r \in refreshed : r[1].typ = "refresh"
    /\ \A j \in revokedByToken : \E tok \in clientTokens : tok.typ = "refresh" /\ tok.jti = j

TokenClassesWitness ==
    /\ rf[1].tok.typ = "access"
    /\ rf[1].tok.exp > now
    /\ rf[1].pc = "done"
    /\ rq.header.token.typ = "refresh"
    /\ rq.header.token.exp > rq.at
    /\ rq.code = "Unauthenticated"
    /\ revokedByToken # {}
    /\ refreshed # {}


\* C28: every failure of the protocol engine in CompleteLogin (wrong proof,
\* mismatch, consumed or expired pending session) is answered with wire code
\* Unauthenticated, never Internal.
LoginFailuresUnauthenticated ==
    \A p \in Procs :
        au[p].op = "login" /\ au[p].pc = "done" /\ au[p].res \in EngineFailures =>
            au[p].wire = "Unauthenticated"


\* C29: a CreateRecordStream whose metadata frame does not pass validation
\* fails with InvalidArgument, before any blob upload and any record insert.
InvalidMetadataInvalidArgument ==
    \A p \in Procs :
        rc[p].op = "stream" /\ rc[p].pc = "done" /\ st[p].err = "InvalidMetadata" =>
            /\ rc[p].res = "InvalidArgument"
            /\ rc[p].uploaded = "none"
            /\ rc[p].out = Nil


\* C30: the pump of CreateRecordStream is never left blocked on a pipe write
\* after the uploader has stopped reading: no state has the pump inside
\* dataWriter.Write while storage.Upload has returned.
PumpNeverStuck ==
    \A p \in Procs : ~(st[p].pump = "write" /\ st[p].uploader = "stopped")


\* The proof that call p sent verifies against the stored key of the user it
\* read: the proof was made with the client key of that stored key.
ProofVerifies(p) == StoredKeyOf(au[p].key) = au[p].user.storedKey

\* C31: CompleteLogin consumes the pending login and issues tokens only after
\* the client proof has verified against the stored key of the user.  Every
\* step of a call that writes a pending login or a refresh-token row, or
\* returns tokens, belongs to a call whose proof verifies; a call whose proof
\* does not verify fails at the verification and writes nothing.
ProofBeforeTokens ==
    [][\A p \in Procs :
         (au[p].op = "login" /\ au'[p] # au[p]) =>
            /\ ( \/ pendingLogins' # pendingLogins
                 \/ refreshTokens' # refreshTokens
                 \/ clientTokens' # clientTokens
                 \/ au'[p].res = "ok" ) => ProofVerifies(p)
            /\ ( /\ au[p].pc = "getSession"
                 /\ au[p].sid \in DOMAIN pendingLogins
                 /\ ~ProofVerifies(p) )
               => /\ au'[p].pc = "done" /\ au'[p].res \notin {"ok", "none"}
                  /\ UNCHANGED <<refreshTokens, clientTokens, pendingLogins, issuedFor>>
      ]_vars

ProofBeforeTokensWitness ==
    /\ au[1].op = "login" /\ au[1].pc = "done" /\ au[1].res = "InvalidProof"
    /\ ~pendingLogins[au[1].sid].consumed
    /\ \E s \in DOMAIN pendingLogins : pendingLogins[s].consumed
    /\ clientTokens # {}


\* C32: a Refresh that returns an error leaves the stored row of the presented
\* token unchanged.  With one client and no other revocation, a call that
\* failed to persist the new row had found its token active, so the row is
\* still unrevoked when the call has failed.
FailedRefreshKeepsRow ==
    \A p \in Procs :
        rf[p].pc = "done" /\ rf[p].res = "Backend" =>
            refreshTokens[rf[p].tok.jti].revokedAt = Nil


\* The rows that name jti as the token they were rotated from.
Successors(jti) == {j \in DOMAIN refreshTokens : refreshTokens[j].rotatedFromJTI = jti}

\* C33: the rotatedFromJTI links form a chain.  Every row created by Refresh
\* is rotated from the jti of the token presented; a row is rotated from an
\* older row (so there is no cycle), and no jti is the predecessor of more
\* than one row.
RotationChain ==
    /\ \A p \in Procs :
          rf[p].pc = "done" /\ rf[p].res = "ok" =>
              refreshTokens[rf[p].out.jti].rotatedFromJTI = rf[p].tok.jti
    /\ \A j \in DOMAIN refreshTokens :
          refreshTokens[j].rotatedFromJTI # Nil =>
              /\ refreshTokens[j].rotatedFromJTI \in DOMAIN refreshTokens
              /\ refreshTokens[j].rotatedFromJTI < j
    /\ \A j \in DOMAIN refreshTokens : Cardinality(Successors(j)) <= 1


\* A refresh-token row is active: not revoked and not expired.
Active(row) == row.revokedAt = Nil /\ now <= row.expiresAt

\* C34: after RevokeAllForUser(u) has returned, u has no active refresh-token
\* row until u logs in again (no login takes place here): no row of a user
\* whose rows were revoked by RevokeAllForUser is active.
NoActiveAfterRevokeAll ==
    \A j \in DOMAIN refreshTokens :
        (\E k \in revokedByUser : refreshTokens[k].userID = refreshTokens[j].userID)
            => ~Active(refreshTokens[j])


\* A client uploads records as streams and lists its records without delta,
\* and another deletes records, one call after the other.
ListBeginAll == \E caller \in UserIDs : ListBegin(1, caller, "", 0, FALSE)

NextGone ==
    \/ CreateRecordStreamBeginOwned
    \/ SaveRecordUploadCall
    \/ SaveRecordCreateCall
    \/ DeleteBeginAny
    \/ DeleteGetByIDCall
    \/ DeleteStorageCall
    \/ DeleteSoftDeleteCall
    \/ ListBeginAll
    \/ ListAllCall
    \/ RecordReturnCall

SpecGone == InitRegistered /\ [][NextGone]_vars

\* The "user_id" metadata that a client may send with a call: none, the
\* text of a user id, a text that is no id, or two values.
Supplied ==
    {<<>>, <<<<"text", 0>>>>}
      \cup {<<String(u)>> : u \in UserIDs}
      \cup {<<String(u), String(v)>> : u \in UserIDs, v \in UserIDs}

\* The first request of the server, at any time.
InterceptSupplied ==
    /\ rq = IdleRequest
    /\ \E route \in Routes, tok \in Credentials, supplied \in Supplied :
           Intercept(route, Header(TRUE, tok), supplied)

NextIdentity ==
    \/ InterceptSupplied
    \/ Tick

SpecIdentity == InitRegistered /\ [][NextIdentity]_vars

\* A client creating inline records with and without request id, and a client
\* deleting records, between the store calls of the other.
NextReuse ==
    \/ CreateRecordBeginOne
    \/ SaveRecordCreateCall
    \/ DeleteBeginAny
    \/ DeleteGetByIDCall
    \/ DeleteSoftDeleteCall
    \/ RecordReturnCall

SpecReuse == InitRegistered /\ [][NextReuse]_vars

\* A live record of the user that the client has not received and that no
\* later delta will return: its updated time is not after the client's
\* watermark, and every later watermark is at least this one.
Missed(id) ==
    /\ records[id].ownerID = 1
    /\ records[id].deletedAt = Nil
    /\ id \notin sync.records
    /\ records[id].updatedAt <= TimeUnix(sync.watermark)

\* C35: a client that passes the serverTime of its previous delta as the next
\* updatedAfter misses no change for good: between its calls there is no live
\* record that it has not received and that lies at or before its watermark.
NoChangeMissed ==
    rc[2].pc = "idle" => \A id \in DOMAIN records : ~Missed(id)

\* C36: after CreateRecordStream has returned, with success or with an error,
\* the blob written under the key generated by the call is referenced by a
\* persisted record or storage.Delete has been issued for its key.
NoOrphanBlob ==
    \A p \in Procs :
        (rc[p].op = "stream" /\ rc[p].pc = "done" /\ rc[p].uploaded = "ok")
            => \/ \E id \in DOMAIN records : records[id].s3Key = rc[p].params.s3Key
               \/ rc[p].params.s3Key \in deleteLog

\* C37: in every reachable state, every record that is not deleted and has a
\* blob key refers to a blob that is present in the blob store.
LiveRecordHasBlob ==
    \A id \in DOMAIN records :
        (records[id].deletedAt = Nil /\ records[id].s3Key # Nil)
            => records[id].s3Key \in blobs

\* C38: when CreateRecord returns a record id successfully, GetRecord of that
\* id by the same owner succeeds in the state the create leaves.
CreatedIsLive ==
    [][\A p \in Procs :
         (rc[p].op = "create" /\ rc[p].pc = "create" /\ rc'[p].pc = "done" /\ rc'[p].res = "ok")
             => GetRecord(records', rc[p].params.ownerID, rc'[p].out).err = NoErr]_vars

\* What the last request would have come to had the client sent no "user_id"
\* metadata of its own.
Unsupplied ==
    LET route == rq.route
        selected == authSkip(FullMethod(route))
        r == IF selected THEN AuthFunc(rq.header, rq.at)
             ELSE [code |-> "OK", message |-> "", userID |-> Nil]
        md == IF selected /\ r.code = "OK" THEN SetUserIDToContext(<<>>, r.userID) ELSE <<>>
    IN [code |-> r.code, message |-> r.message,
        acting |-> IF r.code = "OK" /\ route[1] = APIService
                   THEN extractUserIDFromContext(md)
                   ELSE [err |-> "", userID |-> Nil]]

\* C39: a record handler reached through authentication acts for the user id
\* inside the verified access token, whatever "user_id" metadata the client
\* sent, and the request comes to what it would have come to without it.
ActsForTokenUser ==
    (rq.handled /\ rq.route[1] = APIService) =>
        /\ rq.acting = [err |-> "nil", userID |-> rq.header.token.userID]
        /\ [code |-> rq.code, message |-> rq.message, acting |-> rq.acting] = Unsupplied

\* A record route was reached with a valid access token of one user and
\* "user_id" metadata that names another.
ActsForTokenUserWitness ==
    /\ rq.handled /\ rq.route[1] = APIService
    /\ rq.supplied # <<>>
    /\ Parse(rq.supplied[1]).err = "nil"
    /\ Parse(rq.supplied[1]).id # rq.header.token.userID
    /\ rq.acting.userID = rq.header.token.userID

\* The record of the id is soft-deleted.
Gone(tbl, id) == id \in DOMAIN tbl /\ tbl[id].deletedAt # Nil

\* C40: DeleteRecord goes on to the soft delete whatever storage.Delete
\* returned and, unless the database fails, ends with success and the record
\* soft-deleted; GetRecord and the listings without delta do not return a
\* soft-deleted record; a DeleteRecord of a soft-deleted id ends at GetByID,
\* with NotFound unless the database fails, and leaves the blob store alone.
DeletedStaysGone ==
    [][/\ \A p \in Procs :
            (rc[p].op = "delete" /\ rc[p].pc = "storage" /\ rc'[p] # rc[p])
                => rc'[p].pc = "softDelete" /\ rc'[p].res = "none"
       /\ \A p \in Procs :
            (rc[p].op = "delete" /\ rc[p].pc = "softDelete" /\ rc'[p].pc = "done"
                /\ ~rc'[p].storeFailed)
                => rc'[p].res = "ok" /\ Gone(records', rc[p].params.id)
       /\ \A id \in DOMAIN records', u \in UserIDs :
            Gone(records', id) => GetRecord(records', u, id).err # NoErr
       /\ \A p \in Procs :
            (rc[p].op = "list" /\ rc[p].pc = "all" /\ rc'[p].pc = "done" /\ rc'[p].res = "ok")
                => \A i \in DOMAIN rc'[p].list : ~Gone(records, rc'[p].list[i].id)
       /\ \A p \in Procs :
            (rc[p].op = "delete" /\ rc[p].pc = "get" /\ rc'[p].pc # "get"
                /\ Gone(records, rc[p].params.id))
                => /\ rc'[p].pc = "done"
                   /\ ~rc'[p].storeFailed => rc'[p].res = "NotFound"
                   /\ UNCHANGED <<blobs, objects, deleteLog>>
      ]_vars

\* A DeleteRecord of a soft-deleted record has ended with NotFound while the
\* blob of the record is still in the store: the delete that soft-deleted it
\* had failed to delete the blob.
DeletedStaysGoneWitness ==
    \E p \in Procs :
        /\ rc[p].op = "delete" /\ rc[p].pc = "done" /\ rc[p].res = "NotFound"
        /\ Gone(records, rc[p].params.id)
        /\ records[rc[p].params.id].ownerID = rc[p].params.ownerID
        /\ records[rc[p].params.id].s3Key \in blobs

=============================================================================
